---- MODULE Spec2Model ----
(***************************************************************************)
(* A model of the MAT-file reader of src/src/parse.rs.                     *)
(*                                                                         *)
(* The input is a sequence of bytes (0..255).  Every decoder of the source *)
(* is an operator from the remaining input to an IResult: a record         *)
(*   [k |-> "Ok", rest |-> remaining input, val |-> value]                 *)
(* or [k |-> "Error" | "Failure" | "Incomplete" | "Panic", ...].           *)
(* "Error", "Failure" and "Incomplete" are nom's three Err variants;       *)
(* "Panic" is a Rust panic (assert!, unreachable!, todo!, a division by    *)
(* zero, an arithmetic overflow in a build with overflow checks).          *)
(*                                                                         *)
(* A u32 is held as two 16-bit halves [hi, lo], an i32 as an integer, and  *)
(* a decoded primitive of a numeric array as its bytes, most significant   *)
(* first, so that no value needs more than 31 bits of an integer.          *)
(***************************************************************************)
EXTENDS Integers, Sequences, FiniteSets, TLC

VARIABLES
    input,          \* the byte slice handed to the entry point
    profile,        \* "debug": overflow checks on; "release": wrapping
    endianness,     \* parse_all's local `endianness` ("Little" / "Big")
    pc,             \* position of the running entry point
    rest,           \* parse_all / many0: the input not yet consumed
    header,         \* parse_all: the Header returned by parse_header
    data_elements,  \* many0's accumulator: the elements decoded so far
    outcome,        \* what the entry point returned
    spans,          \* history: the tag and byte range of each element decoded
    structure,      \* a Structure in the hands of a consumer
    returned        \* what the last Structure accessor returned

vars == <<input, profile, endianness, pc, rest, header, data_elements,
          outcome, spans, structure, returned>>

(***************************************************************************)
(* IResult and Option                                                      *)
(***************************************************************************)
Ok(r, v) == [k |-> "Ok", rest |-> r, val |-> v]

Err(kind) == [k |-> kind, rest |-> <<>>, val |-> <<>>]

IsOk(res) == res.k = "Ok"

None == <<>>

Some(v) == <<v>>

IsSome(o) == Len(o) = 1

Unwrap(o) == o[1]

(***************************************************************************)
(* Slices                                                                  *)
(***************************************************************************)
T8 == 16 * 16

T16 == 256 * 256

Byte == 0..255

Prefix(i, n) == SubSeq(i, 1, n)

Drop(i, n) == SubSeq(i, n + 1, Len(i))

\* nom::bytes::complete::take with a count that fits an integer
take(n, i) ==
    IF n > Len(i) THEN Err("Error") ELSE Ok(Drop(i, n), Prefix(i, n))

(***************************************************************************)
(* u32 arithmetic on [hi, lo]                                              *)
(***************************************************************************)
U32(h, l) == [hi |-> h, lo |-> l]

U32FromNat(n) == U32(n \div T16, n % T16)

\* the value as an integer; only for a value below 2^31
U32Nat(x) == x.hi * T16 + x.lo

U32Fits(x) == x.hi < T16 \div 2

\* x > n, for an integer n
U32GtNat(x, n) == ~U32Fits(x) \/ U32Nat(x) > n

U32EqNat(x, n) == U32Fits(x) /\ U32Nat(x) = n

U32Sub(a, b) ==
    LET lo == a.lo - b.lo
        hi == a.hi - b.hi - (IF lo < 0 THEN 1 ELSE 0)
    IN  [ovf |-> hi < 0, val |-> U32(hi % T16, lo % T16)]

U32Add(a, b) ==
    LET lo == a.lo + b.lo
        hi == a.hi + b.hi + (lo \div T16)
    IN  [ovf |-> hi >= T16, val |-> U32(hi % T16, lo % T16)]

\* a * m and a / m for a small integer m (m < 2^15)
U32MulNat(a, m) ==
    LET lo == a.lo * m
        hi == a.hi * m + (lo \div T16)
    IN  [ovf |-> hi >= T16, val |-> U32(hi % T16, lo % T16)]

U32DivNat(a, m) ==
    U32(a.hi \div m, (((a.hi % m) * T16) + a.lo) \div m)

U32ModNat(a, m) == (((a.hi % m) * T16) + a.lo) % m

(***************************************************************************)
(* nom::number::complete readers.  A value of `size` bytes is returned as  *)
(* its bytes, most significant first.                                      *)
(***************************************************************************)
Reverse(s) == [j \in 1..Len(s) |-> s[Len(s) + 1 - j]]

Digits(e, bytes) == IF e = "Little" THEN Reverse(bytes) ELSE bytes

read(e, size, i) ==
    IF Len(i) < size THEN Err("Error")
    ELSE Ok(Drop(i, size), Digits(e, Prefix(i, size)))

DigitsU16(d) == d[1] * T8 + d[2]

DigitsU32(d) == U32(d[1] * T8 + d[2], d[3] * T8 + d[4])

\* the two's-complement value of four bytes
DigitsI32(d) ==
    ((IF d[1] >= 128 THEN d[1] - T8 ELSE d[1]) * T8 * T16) + (d[2] * T16)
        + (d[3] * T8) + d[4]

u16(e, i) ==
    LET r == read(e, 2, i)
    IN  IF IsOk(r) THEN Ok(r.rest, DigitsU16(r.val)) ELSE r

u32(e, i) ==
    LET r == read(e, 4, i)
    IN  IF IsOk(r) THEN Ok(r.rest, DigitsU32(r.val)) ELSE r

i32(e, i) ==
    LET r == read(e, 4, i)
    IN  IF IsOk(r) THEN Ok(r.rest, DigitsI32(r.val)) ELSE r

\* nom::multi::count of a fixed-width reader: n (a u32) values of `size` bytes
countRead(e, size, n, i) ==
    IF U32GtNat(n, Len(i) \div size) THEN Err("Error")
    ELSE LET m == U32Nat(n)
         IN  Ok(Drop(i, m * size),
                [j \in 1..m |->
                    Digits(e, SubSeq(i, (j - 1) * size + 1, j * size))])

\* take with a u32 count
takeU32(n, i) == IF U32GtNat(n, Len(i)) THEN Err("Error") ELSE take(U32Nat(n), i)

(***************************************************************************)
(* DataType (tags) and ArrayType (array flags)                             *)
(***************************************************************************)
DataType_Int8 == 1
DataType_UInt8 == 2
DataType_Int16 == 3
DataType_UInt16 == 4
DataType_Int32 == 5
DataType_UInt32 == 6
DataType_Single == 7
DataType_Double == 9
DataType_Int64 == 12
DataType_UInt64 == 13
DataType_Matrix == 14
DataType_Compressed == 15
DataType_Utf8 == 16
DataType_Utf16 == 17
DataType_Utf32 == 18

DataType ==
    { DataType_Int8, DataType_UInt8, DataType_Int16, DataType_UInt16,
      DataType_Int32, DataType_UInt32, DataType_Single, DataType_Double,
      DataType_Int64, DataType_UInt64, DataType_Matrix, DataType_Compressed,
      DataType_Utf8, DataType_Utf16, DataType_Utf32 }

\* DataType::from_u32 (derive(Primitive)): Some exactly for a listed code
DataType_from_u32(w) ==
    IF w.hi = 0 /\ w.lo \in DataType THEN Some(w.lo) ELSE None

ArrayType_Cell == 1
ArrayType_Struct == 2
ArrayType_Object == 3
ArrayType_Char == 4
ArrayType_Sparse == 5
ArrayType_Double == 6
ArrayType_Single == 7
ArrayType_Int8 == 8
ArrayType_UInt8 == 9
ArrayType_Int16 == 10
ArrayType_UInt16 == 11
ArrayType_Int32 == 12
ArrayType_UInt32 == 13
ArrayType_Int64 == 14
ArrayType_UInt64 == 15

ArrayType == ArrayType_Cell..ArrayType_UInt64

ArrayType_from_u8(b) == IF b \in ArrayType THEN Some(b) ELSE None

OverflowChecks == profile = "debug"

(***************************************************************************)
(* The tag decoder                                                         *)
(***************************************************************************)
\* ceil_to_multiple, in u32: the product wraps (ovf) when it passes 2^32
ceil_to_multiple(x, multiple) ==
    IF U32GtNat(x, 0)
    THEN U32MulNat(
             U32Add(U32DivNat(U32Sub(x, U32FromNat(1)).val, multiple),
                    U32FromNat(1)).val,
             multiple)
    ELSE [ovf |-> FALSE, val |-> U32FromNat(0)]

DataElementTag(t, size, padding) ==
    [data_type |-> t, data_byte_size |-> size, padding_byte_size |-> padding]

\* nom's `map`/`value` after a `?`: the value v once r has succeeded
map_value(r, v) == IF IsOk(r) THEN Ok(r.rest, v) ELSE r

\* the Long Data Element Format, from the size word s on
long_data_element_tag(ty, s, ceil, pad) ==
    IF OverflowChecks /\ (ceil.ovf \/ pad.ovf) THEN Err("Panic")
    ELSE IF ~IsSome(ty) THEN Err("Failure")
    ELSE Ok(s.rest, DataElementTag(Unwrap(ty), s.val, pad.val))

long_data_element_size(ty, s, ceil) ==
    IF ~IsOk(s) THEN s
    ELSE long_data_element_tag(ty, s, ceil, U32Sub(ceil.val, s.val))

\* the Small Data Element Format of the word w
small_data_element_tag(w, ty, byte_size) ==
    IF U32GtNat(byte_size, 4) THEN Err("Failure")
    ELSE IF ~IsSome(ty) THEN Err("Failure")
    ELSE Ok(w.rest,
            DataElementTag(Unwrap(ty), byte_size,
                U32Sub(U32FromNat(4), byte_size).val))

data_element_tag_of(w, s) ==
    IF ~IsOk(w) THEN w
    ELSE IF w.val.hi = 0
    THEN long_data_element_size(DataType_from_u32(w.val), s,
                                ceil_to_multiple(s.val, 8))
    ELSE small_data_element_tag(w, DataType_from_u32(U32(0, w.val.lo)),
                                U32(0, w.val.hi))

\* the first word w, and the word after it
data_element_tag_words(e, w) == data_element_tag_of(w, u32(e, w.rest))

parse_data_element_tag(e, i) == data_element_tag_words(e, u32(e, i))

(***************************************************************************)
(* i32 arithmetic: the product of the dimensions                           *)
(***************************************************************************)
\* the 64-bit two's complement of an i32, least significant byte first
SignExtend(a) ==
    [k \in 1..8 |-> IF k <= 4 THEN (a \div (T8 ^ (k - 1))) % T8
                    ELSE IF a < 0 THEN 255 ELSE 0]

RECURSIVE Column(_, _, _, _)
Column(A, B, k, j) ==
    IF j > k THEN 0 ELSE (A[j] * B[k + 1 - j]) + Column(A, B, k, j + 1)

RECURSIVE MulBytes(_, _, _, _)
MulBytes(A, B, k, carry) ==
    IF k > 8 THEN <<>>
    ELSE LET t == Column(A, B, k, 1) + carry
         IN  <<t % T8>> \o MulBytes(A, B, k + 1, t \div T8)

\* a * b in i32: val is the wrapped product, ovf says the product left i32
i32_mul(a, b) ==
    LET p == MulBytes(SignExtend(a), SignExtend(b), 1, 0)
        ext == IF p[4] >= 128 THEN 255 ELSE 0
    IN  [ovf |-> \E k \in 5..8 : p[k] # ext,
         val |-> DigitsI32(<<p[4], p[3], p[2], p[1]>>)]

\* dimensions.iter().product::<i32>(): fold(1, |a, b| a * b)
RECURSIVE product_from(_, _, _)
product_from(dims, k, acc) ==
    IF k > Len(dims) THEN acc
    ELSE LET m == i32_mul(acc.val, dims[k])
         IN  product_from(dims, k + 1,
                 [ovf |-> acc.ovf \/ m.ovf, val |-> m.val])

product(dims) == product_from(dims, 1, [ovf |-> FALSE, val |-> 1])

(***************************************************************************)
(* UTF-8, as std::str::from_utf8 accepts it                                *)
(***************************************************************************)
Cont(b, k) == k <= Len(b) /\ b[k] \in 128..191

\* the width of the scalar that starts at b[k], or 0 when there is none
Utf8Width(b, k) ==
    LET c == b[k]
    IN  IF c < 128 THEN 1
        ELSE IF c \in 194..223 /\ Cont(b, k + 1) THEN 2
        ELSE IF c = 224 /\ k + 1 <= Len(b) /\ b[k + 1] \in 160..191
                /\ Cont(b, k + 2) THEN 3
        ELSE IF c \in (225..236) \cup {238, 239} /\ Cont(b, k + 1)
                /\ Cont(b, k + 2) THEN 3
        ELSE IF c = 237 /\ k + 1 <= Len(b) /\ b[k + 1] \in 128..159
                /\ Cont(b, k + 2) THEN 3
        ELSE IF c = 240 /\ k + 1 <= Len(b) /\ b[k + 1] \in 144..191
                /\ Cont(b, k + 2) /\ Cont(b, k + 3) THEN 4
        ELSE IF c \in 241..243 /\ Cont(b, k + 1) /\ Cont(b, k + 2)
                /\ Cont(b, k + 3) THEN 4
        ELSE IF c = 244 /\ k + 1 <= Len(b) /\ b[k + 1] \in 128..143
                /\ Cont(b, k + 2) /\ Cont(b, k + 3) THEN 4
        ELSE 0

Utf8Scalar(b, k, w) ==
    IF w = 1 THEN b[k]
    ELSE IF w = 2 THEN ((b[k] % 32) * 64) + (b[k + 1] % 64)
    ELSE IF w = 3 THEN ((b[k] % 16) * 4096) + ((b[k + 1] % 64) * 64)
                           + (b[k + 2] % 64)
    ELSE ((b[k] % 8) * 262144) + ((b[k + 1] % 64) * 4096)
             + ((b[k + 2] % 64) * 64) + (b[k + 3] % 64)

IsCont(c) == c \in 128..191

\* from_utf8(b).is_ok(): the bytes that are not continuation bytes are the
\* first bytes of well-formed scalars that follow one another from b[1] on
is_utf8(b) ==
    /\ Len(b) > 0 => ~IsCont(b[1])
    /\ \A k \in 1..Len(b) :
          ~IsCont(b[k]) =>
              /\ Utf8Width(b, k) > 0
              /\ k + Utf8Width(b, k) <= Len(b) => ~IsCont(b[k + Utf8Width(b, k)])

\* the scalars of well-formed b that start in lo..hi, in order (str.chars())
RECURSIVE chars_in(_, _, _)
chars_in(b, lo, hi) ==
    IF lo > hi THEN <<>>
    ELSE IF lo = hi
    THEN IF IsCont(b[lo]) THEN <<>>
         ELSE <<Utf8Scalar(b, lo, Utf8Width(b, lo))>>
    ELSE chars_in(b, lo, (lo + hi) \div 2)
             \o chars_in(b, ((lo + hi) \div 2) + 1, hi)

\* String::from_utf8: Some(the scalars), or None for ill-formed bytes
from_utf8(b) == IF is_utf8(b) THEN Some(chars_in(b, 1, Len(b))) ELSE None

(***************************************************************************)
(* The file header                                                         *)
(***************************************************************************)
Header(text, is_little_endian) ==
    [text |-> text, is_little_endian |-> is_little_endian]

\* the version word left as it was read
swap_bytes_none(v) == v

swap_bytes(v) == ((v % T8) * T8) + (v \div T8)

\* from the endian indicator on: text, version (read as little endian), m
header_flags(text, v, m) ==
    IF ~IsOk(text) THEN text
    ELSE IF ~IsOk(v) THEN v
    ELSE IF ~IsOk(m) \/ m.val \notin {<<73, 77>>, <<77, 73>>} THEN Err("Error")
    ELSE IF (IF m.val = <<73, 77>> THEN v.val ELSE swap_bytes(v.val)) # 256
    THEN Err("Failure")
    ELSE Ok(m.rest,
            Header(IF is_utf8(text.val) THEN text.val ELSE <<>>,
                   m.val = <<73, 77>>))

parse_header(i) ==
    IF Len(i) < 4 \/ \E k \in 1..4 : i[k] = 0 THEN Err("Error")
    ELSE header_flags(take(116, i), u16("Little", Drop(i, 116 + 8)),
                      take(2, Drop(i, 116 + 8 + 2)))

(***************************************************************************)
(* Array header subelements                                                *)
(***************************************************************************)
Bit(n, k) == (n \div (2 ^ k)) % 2 = 1

\* two u32 read one after the other
u32_pair(e, i) ==
    IF Len(i) < 8 THEN Err("Error")
    ELSE Ok(Drop(i, 8),
            <<DigitsU32(Digits(e, SubSeq(i, 1, 4))),
              DigitsU32(Digits(e, SubSeq(i, 5, 8)))>>)

ArrayFlags(flags_and_class, class, nzmax) ==
    [complex |-> Bit(flags_and_class.lo, 11),
     global |-> Bit(flags_and_class.lo, 10),
     logical |-> Bit(flags_and_class.lo, 9),
     class |-> class,
     nzmax |-> nzmax]

\* flags_and_class and nzmax, read as f
array_flags_of(f, class) ==
    IF ~IsOk(f) THEN f
    ELSE IF ~IsSome(class) THEN Err("Failure")
    ELSE Ok(f.rest, ArrayFlags(f.val[1], Unwrap(class), f.val[2]))

array_flags_words(f) ==
    array_flags_of(f, ArrayType_from_u8(f.val[1].lo % T8))

\* tag_data_type and tag_data_len, read as t
array_flags_tag(e, t) ==
    IF ~IsOk(t) THEN t
    ELSE IF ~(U32EqNat(t.val[1], DataType_UInt32) /\ U32EqNat(t.val[2], 8))
    THEN Err("Failure")
    ELSE array_flags_words(u32_pair(e, t.rest))

parse_array_flags_subelement(e, i) == array_flags_tag(e, u32_pair(e, i))

\* the padding after the payload d, then the value v
skip_padding(tag, d, v) ==
    IF ~IsOk(d) THEN d
    ELSE map_value(takeU32(tag.padding_byte_size, d.rest), v)

dimensions_of(e, t, d) ==
    skip_padding(t.val, d, [j \in 1..Len(d.val) |-> DigitsI32(d.val[j])])

dimensions_array_tag(e, t) ==
    IF ~IsOk(t) THEN t
    ELSE IF ~(t.val.data_type = DataType_Int32
              /\ U32GtNat(t.val.data_byte_size, 7)
              /\ U32ModNat(t.val.data_byte_size, 4) = 0)
    THEN Err("Failure")
    ELSE dimensions_of(e, t,
             countRead(e, 4, U32DivNat(t.val.data_byte_size, 4), t.rest))

parse_dimensions_array_subelement(e, i) ==
    dimensions_array_tag(e, parse_data_element_tag(e, i))

\* map_res(take(data_byte_size), from_utf8): the bytes b, then the padding
array_name_of(tag, b) ==
    IF ~IsOk(b) THEN b
    ELSE IF ~is_utf8(b.val) THEN Err("Error")
    ELSE skip_padding(tag, b, Some(b.val))

array_name_tag(t) ==
    IF ~IsOk(t) THEN t
    ELSE IF t.val.data_type # DataType_Int8 THEN Err("Failure")
    ELSE IF U32EqNat(t.val.data_byte_size, 0) THEN Ok(t.rest, None)
    ELSE array_name_of(t.val, takeU32(t.val.data_byte_size, t.rest))

parse_array_name_subelement(e, i) ==
    array_name_tag(parse_data_element_tag(e, i))

\* match (supplied_name, element_name), for the element name read as n
reconcile_names(supplied_name, n) ==
    IF ~IsOk(n) THEN n
    ELSE IF ~IsSome(supplied_name) /\ IsSome(n.val)
    THEN Ok(n.rest, Unwrap(n.val))
    ELSE IF IsSome(supplied_name) /\ ~IsSome(n.val)
    THEN Ok(n.rest, Unwrap(supplied_name))
    ELSE Err("Failure")

maybe_parse_array_name_subelement(e, supplied_name, i) ==
    reconcile_names(supplied_name, parse_array_name_subelement(e, i))

ArrayHeader(flags, dimensions, name) ==
    [flags |-> flags, dimensions |-> dimensions, name |-> name]

array_header_of(f, d, n) ==
    map_value(n, ArrayHeader(f.val, d.val, n.val))

array_header_name(e, supplied_name, f, d) ==
    IF ~IsOk(d) THEN d
    ELSE array_header_of(f, d,
             maybe_parse_array_name_subelement(e, supplied_name, d.rest))

array_header_dimensions(e, supplied_name, f) ==
    IF ~IsOk(f) THEN f
    ELSE array_header_name(e, supplied_name, f,
             parse_dimensions_array_subelement(e, f.rest))

parse_array_header(e, supplied_name, i) ==
    array_header_dimensions(e, supplied_name,
        parse_array_flags_subelement(e, i))

(***************************************************************************)
(* Numeric subelements and dense numeric arrays                            *)
(***************************************************************************)
\* size_of the primitive that parse_numeric_subelement reads for a tag type
SizeOf(t) ==
    CASE t \in {DataType_Int8, DataType_UInt8} -> 1
      [] t \in {DataType_Int16, DataType_UInt16} -> 2
      [] t \in {DataType_Int32, DataType_UInt32, DataType_Single} -> 4
      [] t \in {DataType_Int64, DataType_UInt64, DataType_Double} -> 8

NumericTypes ==
    { DataType_Int8, DataType_UInt8, DataType_Int16, DataType_UInt16,
      DataType_Int32, DataType_UInt32, DataType_Int64, DataType_UInt64,
      DataType_Single, DataType_Double }

\* NumericData: the variant (named by its DataType) and the Vec
NumericData(t, vec) == [data_type |-> t, vec |-> vec]

numeric_subelement_of(tag, d) ==
    skip_padding(tag, d, NumericData(tag.data_type, d.val))

numeric_subelement_tag(e, t) ==
    IF ~IsOk(t) THEN t
    ELSE IF t.val.data_type \notin NumericTypes THEN Err("Failure")
    ELSE numeric_subelement_of(t.val,
             countRead(e, SizeOf(t.val.data_type),
                 U32DivNat(t.val.data_byte_size, SizeOf(t.val.data_type)),
                 t.rest))

parse_numeric_subelement(e, i) ==
    numeric_subelement_tag(e, parse_data_element_tag(e, i))

\* ArrayType::numeric_data_type
numeric_data_type(class) ==
    CASE class = ArrayType_Double -> Some(DataType_Double)
      [] class = ArrayType_Single -> Some(DataType_Single)
      [] class = ArrayType_Int8 -> Some(DataType_Int8)
      [] class = ArrayType_UInt8 -> Some(DataType_UInt8)
      [] class = ArrayType_Int16 -> Some(DataType_Int16)
      [] class = ArrayType_UInt16 -> Some(DataType_UInt16)
      [] class = ArrayType_Int32 -> Some(DataType_UInt32)
      [] class = ArrayType_UInt32 -> Some(DataType_UInt32)
      [] class = ArrayType_Int64 -> Some(DataType_Int64)
      [] class = ArrayType_UInt64 -> Some(DataType_UInt64)
      [] OTHER -> None

numeric_data_types_are_compatible(array_type, subelement_type) ==
    CASE array_type = DataType_Int8 -> subelement_type \in {DataType_Int8}
      [] array_type = DataType_UInt8 -> subelement_type \in {DataType_UInt8}
      [] array_type = DataType_Int16 ->
            subelement_type \in {DataType_UInt8, DataType_Int16}
      [] array_type = DataType_UInt16 ->
            subelement_type \in {DataType_UInt8, DataType_UInt16}
      [] array_type = DataType_Int32 ->
            subelement_type \in {DataType_UInt8, DataType_Int16,
                                 DataType_UInt16, DataType_Int32}
      [] array_type = DataType_UInt32 ->
            subelement_type \in {DataType_UInt8, DataType_Int16,
                                 DataType_UInt16, DataType_UInt32}
      [] array_type = DataType_Int64 ->
            subelement_type \in {DataType_UInt8, DataType_Int16,
                                 DataType_UInt16, DataType_Int32,
                                 DataType_Int64}
      [] array_type = DataType_UInt64 ->
            subelement_type \in {DataType_UInt8, DataType_Int16,
                                 DataType_UInt16, DataType_Int32,
                                 DataType_UInt64}
      [] array_type = DataType_Single ->
            subelement_type \in {DataType_UInt8, DataType_Int16,
                                 DataType_UInt16, DataType_Int32,
                                 DataType_Single}
      [] array_type = DataType_Double ->
            subelement_type \in {DataType_UInt8, DataType_Int16,
                                 DataType_UInt16, DataType_Int32,
                                 DataType_Double}
      [] OTHER -> FALSE

\* vec.len() == n as usize, for an i32 n: a negative n casts to 2^64 - |n|
LenIsUsizeOf(vec, n) == n >= 0 /\ Len(vec) = n

\* the size and type check of one part of a dense numeric array
numeric_part_ok(part, num_required_elements, array_data_type) ==
    /\ LenIsUsizeOf(part.vec, num_required_elements)
    /\ numeric_data_types_are_compatible(array_data_type, part.data_type)

\* cond(complex, parser): the parser's result, or None without consuming
cond(complex, r, i) ==
    IF ~complex THEN Ok(i, None) ELSE map_value(r, Some(r.val))

Numeric(hdr, real_part, imag_part) ==
    [kind |-> "NumericMatrix", header |-> hdr, real_part |-> real_part,
     imag_part |-> imag_part]

numeric_matrix_of(hdr, real_part, num_required_elements, array_data_type, im) ==
    IF ~IsOk(im) THEN im
    ELSE IF IsSome(im.val)
            /\ ~numeric_part_ok(Unwrap(im.val), num_required_elements,
                                array_data_type)
    THEN Err("Failure")
    ELSE Ok(im.rest, Numeric(hdr, real_part, im.val))

numeric_matrix_real(e, hdr, re, p, array_data_type) ==
    IF ~IsOk(re) THEN re
    ELSE IF OverflowChecks /\ p.ovf THEN Err("Panic")
    ELSE IF ~numeric_part_ok(re.val, p.val, array_data_type) THEN Err("Failure")
    ELSE numeric_matrix_of(hdr, re.val, p.val, array_data_type,
             cond(hdr.flags.complex, parse_numeric_subelement(e, re.rest),
                  re.rest))

parse_numeric_matrix_subelements(e, hdr, i) ==
    numeric_matrix_real(e, hdr, parse_numeric_subelement(e, i),
        product(hdr.dimensions), Unwrap(numeric_data_type(hdr.flags.class)))

(***************************************************************************)
(* Sparse arrays                                                           *)
(***************************************************************************)
\* `i as usize` of an i32 read as four bytes: sign-extended to eight
AsUsize(d) ==
    (IF d[1] >= 128 THEN <<255, 255, 255, 255>> ELSE <<0, 0, 0, 0>>) \o d

index_array_of(tag, d) ==
    skip_padding(tag, d, [j \in 1..Len(d.val) |-> AsUsize(d.val[j])])

\* the body shared by the row index and the column index decoder
index_array_tag(e, t) ==
    IF ~IsOk(t) THEN t
    ELSE IF ~(t.val.data_type = DataType_Int32
              /\ U32GtNat(t.val.data_byte_size, 0))
    THEN Err("Failure")
    ELSE index_array_of(t.val,
             countRead(e, 4, U32DivNat(t.val.data_byte_size, 4), t.rest))

parse_row_index_array_subelement(e, i) ==
    index_array_tag(e, parse_data_element_tag(e, i))

parse_column_index_array_subelement(e, i) ==
    index_array_tag(e, parse_data_element_tag(e, i))

\* a size check that lets every count pass
sparse_part_any(part, nzmax) == TRUE

\* the size check of one part of a sparse array
sparse_part_ok(part, nzmax) == U32EqNat(nzmax, Len(part.vec))

Sparse(hdr, row_index, column_index, real_part, imag_part) ==
    [kind |-> "SparseMatrix", header |-> hdr, row_index |-> row_index,
     column_index |-> column_index, real_part |-> real_part,
     imag_part |-> imag_part]

sparse_matrix_of(hdr, row_index, column_index, real_part, im) ==
    IF ~IsOk(im) THEN im
    ELSE IF IsSome(im.val) /\ ~sparse_part_ok(Unwrap(im.val), hdr.flags.nzmax)
    THEN Err("Failure")
    ELSE Ok(im.rest, Sparse(hdr, row_index, column_index, real_part, im.val))

sparse_matrix_real(e, hdr, row_index, column_index, re) ==
    IF ~IsOk(re) THEN re
    ELSE IF ~sparse_part_ok(re.val, hdr.flags.nzmax) THEN Err("Failure")
    ELSE sparse_matrix_of(hdr, row_index, column_index, re.val,
             cond(hdr.flags.complex, parse_numeric_subelement(e, re.rest),
                  re.rest))

sparse_matrix_columns(e, hdr, row_index, co) ==
    IF ~IsOk(co) THEN co
    ELSE sparse_matrix_real(e, hdr, row_index, co.val,
             parse_numeric_subelement(e, co.rest))

sparse_matrix_rows(e, hdr, ro) ==
    IF ~IsOk(ro) THEN ro
    ELSE sparse_matrix_columns(e, hdr, ro.val,
             parse_column_index_array_subelement(e, ro.rest))

parse_sparse_matrix_subelements(e, hdr, i) ==
    sparse_matrix_rows(e, hdr, parse_row_index_array_subelement(e, i))

(***************************************************************************)
(* Character arrays                                                        *)
(***************************************************************************)
Surrogate(u) == u \in 55296..57343

HighSurrogate(u) == u \in 55296..56319

LowSurrogate(u) == u \in 56320..57343

\* the Utf16 arm: `cells` scalars from char::decode_utf16, then eof(rem)
RECURSIVE decode_utf16(_, _, _, _)
decode_utf16(units, k, cells, str) ==
    IF cells = 0
    THEN IF k <= Len(units) THEN Err("Error") ELSE Ok(<<>>, str)
    ELSE IF k > Len(units) THEN Err("Failure")
    ELSE IF ~Surrogate(units[k])
         THEN decode_utf16(units, k + 1, cells - 1, Append(str, units[k]))
    ELSE IF HighSurrogate(units[k]) /\ k < Len(units)
            /\ LowSurrogate(units[k + 1])
         THEN decode_utf16(units, k + 2, cells - 1,
                  Append(str, 65536 + ((units[k] - 55296) * 1024)
                                  + (units[k + 1] - 56320)))
    ELSE Err("Failure")

\* char::from_u32 of four bytes
char_from_u32(d) ==
    LET w == DigitsU32(d)
    IN  IF w.hi > 16 \/ (w.hi = 0 /\ Surrogate(w.lo)) THEN None
        ELSE Some(U32Nat(w))

\* the Utf32 arm: `cells` scalars, then eof(rem)
RECURSIVE decode_utf32(_, _, _, _)
decode_utf32(words, k, cells, str) ==
    IF cells = 0
    THEN IF k <= Len(words) THEN Err("Error") ELSE Ok(<<>>, str)
    ELSE IF k > Len(words) THEN Err("Error")
    ELSE IF ~IsSome(char_from_u32(words[k])) THEN Err("Failure")
    ELSE decode_utf32(words, k + 1, cells - 1,
             Append(str, Unwrap(char_from_u32(words[k]))))

\* product as usize, cut to just above n: a negative product casts to a
\* count that no buffer of n units holds
CellsUpTo(p, n) == IF p < 0 \/ p > n THEN n + 1 ELSE p

Unicode(str) == [kind |-> "Unicode", str |-> str]

NonUnicode(vec) == [kind |-> "NonUnicode", vec |-> vec]

\* count(u16(endianness), n / 2) over a buffer of n bytes
u16_units(e, buf) ==
    [j \in 1..(Len(buf) \div 2) |->
        DigitsU16(Digits(e, SubSeq(buf, 2 * j - 1, 2 * j)))]

u32_words(e, buf) ==
    [j \in 1..(Len(buf) \div 4) |-> Digits(e, SubSeq(buf, 4 * j - 3, 4 * j))]

\* the string decoded as r, and the input i after the buffer
unicode_of(r, i) == IF IsOk(r) THEN Ok(i, Unicode(r.val)) ELSE r

\* the match on the tag's type, over the buffer buf of n bytes; i is the
\* input after the buffer, p the product of the dimensions
character_data_arm(e, data_type, p, buf, n, i) ==
    CASE data_type = DataType_UInt16 ->
            IF n % 2 # 0 THEN Err("Panic")
            ELSE IF CellsUpTo(p, n \div 2) > n \div 2 THEN Err("Error")
            ELSE IF p < n \div 2 THEN Err("Failure")
            ELSE Ok(i, NonUnicode(u16_units(e, buf)))
      [] data_type = DataType_Utf8 ->
            IF ~is_utf8(buf) THEN Err("Failure")
            ELSE IF ~LenIsUsizeOf(Unwrap(from_utf8(buf)), p) THEN Err("Failure")
            ELSE Ok(i, Unicode(Unwrap(from_utf8(buf))))
      [] data_type = DataType_Utf16 ->
            IF n % 2 # 0 THEN Err("Panic")
            ELSE unicode_of(decode_utf16(u16_units(e, buf), 1,
                                 CellsUpTo(p, n \div 2), <<>>), i)
      [] data_type = DataType_Utf32 ->
            IF n % 4 # 0 THEN Err("Panic")
            ELSE unicode_of(decode_utf32(u32_words(e, buf), 1,
                                 CellsUpTo(p, n \div 4), <<>>), i)
      [] OTHER -> Err("Failure")

character_data_of(e, tag, p, b) ==
    IF ~IsOk(b) THEN b
    ELSE character_data_arm(e, tag.data_type, p.val, b.val, Len(b.val), b.rest)

character_data_tag(e, p, t) ==
    IF ~IsOk(t) THEN t
    ELSE IF OverflowChecks /\ p.ovf THEN Err("Panic")
    ELSE character_data_of(e, t.val, p, takeU32(t.val.data_byte_size, t.rest))

parse_character_array_data(e, dimensions, i) ==
    character_data_tag(e, product(dimensions), parse_data_element_tag(e, i))

Character(hdr, real_part, imag_part) ==
    [kind |-> "CharacterMatrix", header |-> hdr, real_part |-> real_part,
     imag_part |-> imag_part]

character_array_of(hdr, real_part, im) ==
    map_value(im, Character(hdr, real_part, im.val))

character_array_real(e, hdr, re) ==
    IF ~IsOk(re) THEN re
    ELSE character_array_of(hdr, re.val,
             cond(hdr.flags.complex,
                  parse_character_array_data(e, hdr.dimensions, re.rest),
                  re.rest))

parse_character_array(e, hdr, i) ==
    character_array_real(e, hdr,
        parse_character_array_data(e, hdr.dimensions, i))

(***************************************************************************)
(* zlib (libflate::zlib::Decoder), for streams of stored deflate blocks    *)
(***************************************************************************)
AdlerBase == T16 - 15

\* the sum of w[k] * b[k] over lo..hi, modulo AdlerBase
RECURSIVE WeightedSum(_, _, _, _)
WeightedSum(b, w, lo, hi) ==
    IF lo > hi THEN 0
    ELSE IF lo = hi THEN (w[lo] * b[lo]) % AdlerBase
    ELSE (WeightedSum(b, w, lo, (lo + hi) \div 2)
              + WeightedSum(b, w, ((lo + hi) \div 2) + 1, hi)) % AdlerBase

\* Adler-32, most significant byte first: s1 = 1 + the sum of the bytes,
\* s2 = the sum of the values s1 takes, both modulo AdlerBase
adler32(b) ==
    LET n == Len(b)
        s1 == (1 + WeightedSum(b, [k \in 1..n |-> 1], 1, n)) % AdlerBase
        s2 == (n + WeightedSum(b, [k \in 1..n |-> n + 1 - k], 1, n)) % AdlerBase
    IN  <<s2 \div T8, s2 % T8, s1 \div T8, s1 % T8>>

\* the deflate blocks from i on; Some(<<decoded, rest>>) or None.  A block
\* header is read at a byte boundary, where every stored block ends.  Only
\* stored blocks (BTYPE 00) are decoded: a Huffman block (01, 10) is outside
\* this model and is never drawn as an input; BTYPE 11 is reserved.
RECURSIVE inflate_stored(_, _)
inflate_stored(i, acc) ==
    IF Len(i) < 5 \/ (i[1] \div 2) % 4 # 0 THEN None
    ELSE LET len == i[2] + (i[3] * T8)
             nlen == i[4] + (i[5] * T8)
         IN  IF len + nlen # T16 - 1 \/ Len(i) < 5 + len THEN None
             ELSE IF i[1] % 2 = 1
             THEN Some(<<acc \o SubSeq(i, 6, 5 + len), Drop(i, 5 + len)>>)
             ELSE inflate_stored(Drop(i, 5 + len), acc \o SubSeq(i, 6, 5 + len))

\* Decoder::new(i) and read_to_end: Some(buf) or None for an io::Error
zlib_decode(i) ==
    IF Len(i) < 2 THEN None
    ELSE IF ((i[1] * T8) + i[2]) % 31 # 0 \/ i[1] % 16 # 8 \/ i[1] \div 16 > 7
            \/ (i[2] \div 32) % 2 = 1
    THEN None
    ELSE LET body == inflate_stored(Drop(i, 2), <<>>)
         IN  IF ~IsSome(body) THEN None
             ELSE LET buf == Unwrap(body)[1]
                      tail == Unwrap(body)[2]
                  IN  IF Len(tail) < 4 \/ Prefix(tail, 4) # adler32(buf)
                      THEN None
                      ELSE Some(buf)

(***************************************************************************)
(* Structures and the element decoder                                      *)
(***************************************************************************)
Unsupported == [kind |-> "Unsupported"]

\* parse_unsupported_data_element: Ok((&[], DataElement::Unsupported))
parse_unsupported_data_element(i) == Ok(<<>>, Unsupported)

\* `vec[0] as usize`: eight bytes, sign-extended for a signed type
usize_of(t, d) ==
    LET signed == t \in {DataType_Int8, DataType_Int16, DataType_Int32,
                         DataType_Int64}
        fill == IF signed /\ d[1] >= 128 THEN 255 ELSE 0
    IN  [j \in 1..(8 - Len(d)) |-> fill] \o d

field_name_length_of(n) ==
    IF ~IsOk(n) THEN n
    ELSE IF n.val.data_type \in {DataType_Single, DataType_Double}
    THEN Err("Panic")
    ELSE IF Len(n.val.vec) # 1 THEN Err("Panic")
    ELSE Ok(n.rest, usize_of(n.val.data_type, n.val.vec[1]))

parse_struct_field_name_length(e, i) ==
    field_name_length_of(parse_numeric_subelement(e, i))

\* a usize below 2^24 as an integer
UsizeSmall(u) == \A j \in 1..5 : u[j] = 0

UsizeNat(u) == (u[6] * T16) + (u[7] * T8) + u[8]

\* CStr::from_bytes_until_nul(buf) and to_str: Some(the bytes before the
\* first NUL), None without a NUL or for ill-formed UTF-8
cstr(buf) ==
    IF \A j \in 1..Len(buf) : buf[j] # 0 THEN None
    ELSE LET z == CHOOSE j \in 1..Len(buf) :
                      buf[j] = 0 /\ \A h \in 1..(j - 1) : buf[h] # 0
         IN  IF is_utf8(Prefix(buf, z - 1))
             THEN Some(Prefix(buf, z - 1))
             ELSE None

\* the buffers of m bytes cut from data, each read up to its NUL
cut_names(data, m, value_count) ==
    [idx \in 1..value_count |-> cstr(SubSeq(data, (m * (idx - 1)) + 1, m * idx))]

\* the loop over the buffers of max_length bytes, after the padding
struct_names_of(max_length, data, pad) ==
    IF ~IsOk(pad) THEN pad
    ELSE IF UsizeSmall(max_length) /\ UsizeNat(max_length) = 0 THEN Err("Panic")
    ELSE LET m == UsizeNat(max_length)
             value_count == IF UsizeSmall(max_length) THEN Len(data) \div m
                            ELSE 0
         IN  IF \E idx \in 1..value_count :
                    ~IsSome(cut_names(data, m, value_count)[idx])
             THEN Err("Failure")
             ELSE Ok(pad.rest,
                     [idx \in 1..value_count |->
                         Unwrap(cut_names(data, m, value_count)[idx])])

struct_names_data(max_length, tag, d) ==
    IF ~IsOk(d) THEN d
    ELSE struct_names_of(max_length, d.val,
             takeU32(tag.padding_byte_size, d.rest))

struct_names_tag(max_length, t) ==
    IF ~IsOk(t) THEN t
    ELSE IF ~(t.val.data_type = DataType_Int8
              /\ U32GtNat(t.val.data_byte_size, 0))
    THEN Err("Failure")
    ELSE struct_names_data(max_length, t.val,
             takeU32(t.val.data_byte_size, t.rest))

parse_struct_names(e, max_length, i) ==
    struct_names_tag(max_length, parse_data_element_tag(e, i))

RECURSIVE parse_next_data_element(_, _, _)
RECURSIVE parse_struct_fields(_, _, _, _, _)

parse_struct_field(e, name, i) == parse_next_data_element(e, Some(name), i)

\* result.push(val); i = j; and the rest of the loop
struct_fields_push(e, names, k, result, f) ==
    IF ~IsOk(f) THEN f
    ELSE parse_struct_fields(e, names, k + 1, Append(result, f.val), f.rest)

\* the loop of parse_struct_fields from the k-th name on
parse_struct_fields(e, names, k, result, i) ==
    IF k > Len(names) THEN Ok(i, result)
    ELSE struct_fields_push(e, names, k, result,
             parse_struct_field(e, names[k], i))

Structure(hdr, field_names, values) ==
    [kind |-> "StructureMatrix", header |-> hdr, field_names |-> field_names,
     values |-> values]

struct_of(hdr, field_names, v) ==
    map_value(v, Structure(hdr, field_names, v.val))

struct_names(e, hdr, n) ==
    IF ~IsOk(n) THEN n
    ELSE struct_of(hdr, n.val, parse_struct_fields(e, n.val, 1, <<>>, n.rest))

struct_field_name_length(e, hdr, l) ==
    IF ~IsOk(l) THEN l
    ELSE struct_names(e, hdr, parse_struct_names(e, l.val, l.rest))

parse_struct(e, hdr, i) ==
    struct_field_name_length(e, hdr, parse_struct_field_name_length(e, i))

\* match header.flags.class
matrix_data_element_of(e, h) ==
    IF ~IsOk(h) THEN h
    ELSE CASE h.val.flags.class = ArrayType_Char ->
                 parse_character_array(e, h.val, h.rest)
           [] h.val.flags.class = ArrayType_Struct ->
                 parse_struct(e, h.val, h.rest)
           [] h.val.flags.class = ArrayType_Sparse ->
                 parse_sparse_matrix_subelements(e, h.val, h.rest)
           [] OTHER ->
                 IF IsSome(numeric_data_type(h.val.flags.class))
                 THEN parse_numeric_matrix_subelements(e, h.val, h.rest)
                 ELSE parse_unsupported_data_element(h.rest)

parse_matrix_data_element(e, supplied_name, i) ==
    matrix_data_element_of(e, parse_array_header(e, supplied_name, i))

\* the element of the decompressed buffer, read as r
compressed_data_element_of(buf, r) ==
    IF ~IsSome(buf) THEN Err("Failure")
    ELSE IF IsOk(r) THEN Ok(<<>>, r.val)
    ELSE r

compressed_buffer(e, buf) ==
    compressed_data_element_of(buf,
        parse_next_data_element(e, None, Unwrap(buf)))

parse_compressed_data_element(e, i) == compressed_buffer(e, zlib_decode(i))

\* the parser that parse_next_data_element picks for the tag
next_parser(e, name, tag, i) ==
    CASE tag.data_type = DataType_Matrix ->
             parse_matrix_data_element(e, name, i)
      [] tag.data_type = DataType_Compressed ->
             parse_compressed_data_element(e, i)
      [] OTHER -> parse_unsupported_data_element(i)

\* what length_value makes of the inner parser's result r
length_value_of(n, r, i) ==
    IF r.k = "Incomplete" THEN Err("Error")
    ELSE IF ~IsOk(r) THEN r
    ELSE Ok(Drop(i, n), r.val)

\* nom's length_value(constant(data_byte_size), next_parser)
length_value(e, name, tag, i) ==
    IF U32GtNat(tag.data_byte_size, Len(i)) THEN Err("Incomplete")
    ELSE length_value_of(U32Nat(tag.data_byte_size),
             next_parser(e, name, tag, Prefix(i, U32Nat(tag.data_byte_size))),
             i)

\* opt(complete(take(n))): nothing is taken when fewer than n bytes remain
opt_take(n, i) == IF U32GtNat(n, Len(i)) THEN i ELSE Drop(i, U32Nat(n))

\* the padding of every element, a Compressed one included
num_padding_bytes_all(tag) == tag.padding_byte_size

num_padding_bytes(tag) ==
    IF tag.data_type = DataType_Compressed THEN U32FromNat(0)
    ELSE tag.padding_byte_size

next_data_element_of(tag, d) ==
    IF ~IsOk(d) THEN d
    ELSE Ok(opt_take(num_padding_bytes(tag), d.rest), d.val)

next_data_element_tag(e, name, t) ==
    IF ~IsOk(t) THEN t
    ELSE IF t.val.data_type = DataType_Compressed /\ IsSome(name)
    THEN Err("Panic")
    ELSE next_data_element_of(t.val, length_value(e, name, t.val, t.rest))

parse_next_data_element(e, name, i) ==
    next_data_element_tag(e, name, parse_data_element_tag(e, i))

\* complete(f): an Incomplete becomes an Error
complete(r) == IF r.k = "Incomplete" THEN Err("Error") ELSE r

(***************************************************************************)
(* parse_all, one step of many0 at a time                                  *)
(***************************************************************************)
\* every file taken for a little-endian one
Endianness_little(hdr) == "Little"

Endianness(hdr) == IF hdr.is_little_endian THEN "Little" ELSE "Big"

ParseResult(hdr, elements) == [header |-> hdr, data_elements |-> elements]

NoStructure == [field_names |-> <<>>, values |-> <<>>]

\* many0(complete(parse_next_data_element(endianness, None))) as a whole:
\* r is what the element parser made of i, acc the elements pushed so far
RECURSIVE many0(_, _, _)
many0_element(e, i, acc, r) ==
    IF r.k = "Error" THEN Ok(i, acc)
    ELSE IF ~IsOk(r) THEN r
    ELSE IF Len(r.rest) = Len(i) THEN Err("Error")
    ELSE many0(e, r.rest, Append(acc, r.val))

many0(e, i, acc) ==
    many0_element(e, i, acc, complete(parse_next_data_element(e, None, i)))

parse_all_elements(hdr, m) ==
    IF ~IsOk(m) THEN m ELSE Ok(m.rest, ParseResult(hdr, m.val))

parse_all_header(h) ==
    IF ~IsOk(h) THEN h
    ELSE parse_all_elements(h.val, many0(Endianness(h.val), h.rest, <<>>))

\* parse_all in one step
parse_all(i) == parse_all_header(parse_header(i))

\* parse_header(i)?
ParseHeader ==
    /\ pc = "header"
    /\ \E h \in {parse_header(input)} :
           IF IsOk(h)
           THEN /\ header' = h.val
                /\ endianness' = Endianness(h.val)
                /\ rest' = h.rest
                /\ pc' = "many0"
                /\ UNCHANGED outcome
           ELSE /\ outcome' = Err(h.k)
                /\ pc' = "done"
                /\ UNCHANGED <<header, endianness, rest>>
    /\ UNCHANGED <<input, profile, data_elements, spans, structure, returned>>

\* the element that many0 tries next
NextElement == complete(parse_next_data_element(endianness, None, rest))

\* many0: the element parser succeeded; push and go on.  (A parser that
\* succeeds without consuming makes many0 fail with an Error.)
ElementDecoded ==
    /\ pc = "many0"
    /\ \E r \in {NextElement}, t \in {parse_data_element_tag(endianness, rest)} :
          /\ IsOk(r)
          /\ IF Len(r.rest) = Len(rest)
             THEN /\ outcome' = Err("Error")
                  /\ pc' = "done"
                  /\ UNCHANGED <<rest, data_elements, spans>>
             ELSE /\ data_elements' = Append(data_elements, r.val)
                  /\ rest' = r.rest
                  /\ spans' = Append(spans,
                         [tag |-> t.val,
                          taglen |-> Len(rest) - Len(t.rest),
                          start |-> Len(input) - Len(rest),
                          end |-> Len(input) - Len(r.rest)])
                  /\ UNCHANGED <<pc, outcome>>
    /\ UNCHANGED <<input, profile, endianness, header, structure, returned>>

\* many0: the element parser returned Err::Error; parse_all returns Ok with
\* the elements pushed so far and the input from the failed element on
Many0Ends ==
    /\ pc = "many0"
    /\ NextElement.k = "Error"
    /\ outcome' = Ok(rest, ParseResult(header, data_elements))
    /\ pc' = "done"
    /\ UNCHANGED <<input, profile, endianness, rest, header, data_elements,
                   spans, structure, returned>>

\* many0: the element parser returned Err::Failure; parse_all returns it
ElementFails ==
    /\ pc = "many0"
    /\ NextElement.k = "Failure"
    /\ outcome' = Err("Failure")
    /\ pc' = "done"
    /\ UNCHANGED <<input, profile, endianness, rest, header, data_elements,
                   spans, structure, returned>>

\* the element parser panicked: parse_all does not return
ElementPanics ==
    /\ pc = "many0"
    /\ NextElement.k = "Panic"
    /\ outcome' = Err("Panic")
    /\ pc' = "done"
    /\ UNCHANGED <<input, profile, endianness, rest, header, data_elements,
                   spans, structure, returned>>

Next == ParseHeader \/ ElementDecoded \/ Many0Ends \/ ElementFails \/ ElementPanics

(***************************************************************************)
(* The inputs: files laid out as a writer of the format lays them out,     *)
(* and damaged variants of them                                            *)
(***************************************************************************)
RECURSIVE Concat(_)
Concat(ss) == IF ss = <<>> THEN <<>> ELSE Head(ss) \o Concat(Tail(ss))

Zeros(n) == [j \in 1..n |-> 0]

EncU32(e, w) ==
    Digits(e, <<w.hi \div T8, w.hi % T8, w.lo \div T8, w.lo % T8>>)

EncNat(e, n) == EncU32(e, U32FromNat(n))

EncI32(e, a) == Digits(e, Reverse(SubSeq(SignExtend(a), 1, 4)))

LongTag(e, t, size) == EncNat(e, t) \o EncU32(e, size)

SmallTag(e, t, size) == EncU32(e, U32(size, t))

PadTo8(b) == b \o Zeros((8 - (Len(b) % 8)) % 8)

\* a subelement in the long format: tag, payload, padding to 8 bytes
Sub(e, t, payload) == LongTag(e, t, U32FromNat(Len(payload))) \o PadTo8(payload)

\* a subelement in the small format: 4-byte tag, payload, padding to 4 bytes
SmallSub(e, t, payload) ==
    SmallTag(e, t, Len(payload)) \o payload \o Zeros(4 - Len(payload))

FlagsSub(e, class, complex, nzmax) ==
    LongTag(e, DataType_UInt32, U32FromNat(8))
        \o EncNat(e, class + (IF complex THEN 2048 ELSE 0)) \o EncNat(e, nzmax)

DimsSub(e, dims) ==
    Sub(e, DataType_Int32, Concat([j \in 1..Len(dims) |-> EncI32(e, dims[j])]))

NameSub(e, name) == Sub(e, DataType_Int8, name)

\* a numeric subelement holding n primitives of type t, each with bytes 0..0 1
Prims(t, n) ==
    Concat([j \in 1..n |-> Zeros(SizeOf(t) - 1) \o <<j>>])

NumSub(e, t, n) == Sub(e, t, Prims(t, n))

Element(e, t, payload) == LongTag(e, t, U32FromNat(Len(payload))) \o PadTo8(payload)

Matrix(e, body) == Element(e, DataType_Matrix, body)

MatrixHead(e, class, complex, nzmax, dims, name) ==
    FlagsSub(e, class, complex, nzmax) \o DimsSub(e, dims) \o NameSub(e, name)

\* a zlib stream of one stored block, without padding after it
Zlib(buf) ==
    <<120, 1, 1, Len(buf) % T8, Len(buf) \div T8,
      255 - (Len(buf) % T8), 255 - (Len(buf) \div T8)>> \o buf \o adler32(buf)

Compressed(e, inner) ==
    LET z == Zlib(inner) IN LongTag(e, DataType_Compressed, U32FromNat(Len(z))) \o z

FileHeader(e) ==
    <<77, 65, 84, 76>> \o Zeros(120)
        \o (IF e = "Little" THEN <<0, 1, 73, 77>> ELSE <<1, 0, 77, 73>>)

NameX == <<120>>

\* a dense matrix of class `class` whose parts hold rn and im primitives
Dense(e, class, dims, name, rt, rn, complex, it, im) ==
    Matrix(e, MatrixHead(e, class, complex, 0, dims, name)
                \o NumSub(e, rt, rn)
                \o (IF complex THEN NumSub(e, it, im) ELSE <<>>))

MaxElements == 2

MaxCount == 2

MaxFields == 2

Endians == {"Little", "Big"}

NumericClasses == ArrayType_Double..ArrayType_UInt64

\* a 1x1 uint8 matrix, as a writer lays it out
Scalar(e, name) ==
    Dense(e, ArrayType_UInt8, <<1, 1>>, name, DataType_UInt8, 1, FALSE,
          DataType_UInt8, 0)

\* every class against every on-disk type, real and complex
CompatFiles ==
    { FileHeader("Little")
        \o Dense("Little", class, <<1, 1>>, NameX, rt, 1, FALSE, rt, 0) :
            class \in NumericClasses, rt \in NumericTypes }
    \cup
    { FileHeader("Little")
        \o Dense("Little", class, <<1, 1>>, NameX, rt, 1, TRUE, it, 1) :
            class \in NumericClasses, rt \in NumericTypes, it \in NumericTypes }

\* extents that are negative, zero, or whose product leaves i32
DimVectors ==
    { <<1, 1>>, <<1, 2>>, <<2, 1>>, <<1, 1, 2>>, <<0, 5>>, <<-1, -1>>,
      <<-1, 1>>, <<-2, -1>>, <<65536, 65536>>, <<-65536, 65536>>,
      <<65537, 65535>>, <<3, 1431655766>>, <<65536, 65536, 0>>,
      <<2147483647, 1>>, <<-2147483647 - 1, -1>> }

DimFiles ==
    { FileHeader(e)
        \o Dense(e, ArrayType_UInt8, dims, NameX, DataType_UInt8, rn, FALSE,
                 DataType_UInt8, 0) :
            e \in Endians, dims \in DimVectors, rn \in 0..MaxCount }
    \cup
    { FileHeader("Little")
        \o Dense("Little", ArrayType_UInt8, dims, NameX, DataType_UInt8, rn,
                 TRUE, DataType_UInt8, im) :
            dims \in DimVectors, rn \in 0..MaxCount, im \in 0..MaxCount }

ElemA(e) == Scalar(e, NameX)

ElemU(e) == Element(e, DataType_Int8, <<1, 2, 3>>)

ElemS(e) == SmallSub(e, DataType_UInt8, <<7>>)

ElemZ(e) == Compressed(e, ElemA(e))

Elems(e) == {ElemA(e), ElemU(e), ElemS(e), ElemZ(e)}

\* the streams of at most n elements
RECURSIVE Streams(_, _)
Streams(e, n) ==
    IF n = 0 THEN {<<>>}
    ELSE {<<>>} \cup {x \o y : x \in Elems(e), y \in Streams(e, n - 1)}

Prefixes(b, from) == {Prefix(b, n) : n \in from..Len(b)}

\* whole and truncated streams of elements; a Compressed element whose
\* decompressed buffer is a truncated element
StreamFiles ==
    UNION { Prefixes(FileHeader("Little") \o x, 128) :
                x \in Streams("Little", MaxElements) }
    \cup
    { FileHeader("Little") \o ElemA("Little")
        \o Compressed("Little", inner) :
            inner \in Prefixes(ElemA("Little"), 0) }
    \cup
    { FileHeader("Big") \o x : x \in Streams("Big", MaxElements) }

\* a first element of every type code, in both tag formats, then a matrix
TypeCodes == 0..20

TopFiles ==
    { FileHeader(e) \o Element(e, t, Zeros(n)) \o ElemA(e) :
          e \in Endians, t \in TypeCodes, n \in {0, 3} }
    \cup
    { FileHeader(e) \o SmallTag(e, t, n) \o Zeros(4) \o ElemA(e) :
          e \in Endians, t \in TypeCodes, n \in {1, 4, 5} }

\* matrices with and without a name in the stream
NameSubs(e) ==
    { NameSub(e, <<>>), NameSub(e, NameX), SmallSub(e, DataType_Int8, NameX),
      NameSub(e, <<120, 121, 122, 119, 118>>), NameSub(e, <<255>>),
      Sub(e, DataType_UInt8, NameX) }

Named(e, namesub) ==
    Matrix(e, FlagsSub(e, ArrayType_UInt8, FALSE, 0) \o DimsSub(e, <<1, 1>>)
                \o namesub \o NumSub(e, DataType_UInt8, 1))

NameFiles ==
    UNION { { FileHeader(e) \o Named(e, n) \o ElemU(e) : n \in NameSubs(e) } :
                e \in Endians }

\* an index subelement of a sparse array holding the values 0..n-1
IndexSub(e, n) ==
    Sub(e, DataType_Int32, Concat([j \in 1..n |-> EncI32(e, j - 1)]))

SparseOf(e, complex, nzmax, rows, cols, rn, im) ==
    Matrix(e, MatrixHead(e, ArrayType_Sparse, complex, nzmax, <<2, 2>>, NameX)
                \o rows \o cols \o NumSub(e, DataType_Double, rn)
                \o (IF complex THEN NumSub(e, DataType_Double, im) ELSE <<>>))

\* index subelements as a writer lays them out, and ones whose tag has
\* another type, a length of 0, or a length that is not a multiple of 4
IndexSubs(e) ==
    { IndexSub(e, n) : n \in 1..MaxCount }
    \cup
    { SmallSub(e, DataType_Int32, EncI32(e, 1)),
      SmallTag(e, DataType_Int32, 2) \o <<0, 0>>,
      LongTag(e, DataType_Int32, U32FromNat(6)) \o EncI32(e, 1) \o <<0, 0>>,
      LongTag(e, DataType_Int32, U32FromNat(0)),
      Sub(e, DataType_UInt32, EncI32(e, 1)) }

SparseFiles ==
    UNION { { FileHeader(e)
                \o SparseOf(e, FALSE, nzmax, IndexSub(e, 1), IndexSub(e, 2),
                            rn, 0) :
                  nzmax \in 0..MaxCount, rn \in 0..MaxCount }
            \cup
            { FileHeader(e)
                \o SparseOf(e, TRUE, nzmax, IndexSub(e, 1), IndexSub(e, 2),
                            rn, im) :
                  nzmax \in 0..MaxCount, rn \in 0..MaxCount, im \in 0..MaxCount }
            \cup
            { FileHeader(e) \o SparseOf(e, FALSE, 1, rows, cols, 1, 0) :
                  rows \in IndexSubs(e), cols \in IndexSubs(e) } :
          e \in Endians }

\* a structure: the length of a field name, the names, one element a field
NameA == <<97>>

NameB == <<98>>

FieldNames(names, max_length) ==
    Concat([j \in 1..Len(names) |->
               names[j] \o Zeros(max_length - Len(names[j]))])

StructOf(e, lensub, namesub, fields) ==
    Matrix(e, MatrixHead(e, ArrayType_Struct, FALSE, 0, <<1, 1>>, NameX)
                \o lensub \o namesub \o Concat(fields))

Struct(e, names, fields) ==
    StructOf(e, SmallSub(e, DataType_Int32, EncI32(e, 2)),
             Sub(e, DataType_Int8, FieldNames(names, 2)), fields)

\* a field: a matrix without a name in the stream
Field(e) == Scalar(e, <<>>)

FieldSparse(e) ==
    Matrix(e, MatrixHead(e, ArrayType_Sparse, FALSE, 1, <<2, 2>>, <<>>)
                \o IndexSub(e, 1) \o IndexSub(e, 2)
                \o NumSub(e, DataType_Double, 1))

FieldCell(e) ==
    Matrix(e, MatrixHead(e, ArrayType_Cell, FALSE, 0, <<1, 1>>, <<>>))

FieldStruct(e) ==
    Matrix(e, MatrixHead(e, ArrayType_Struct, FALSE, 0, <<1, 1>>, <<>>)
                \o SmallSub(e, DataType_Int32, EncI32(e, 2))
                \o Sub(e, DataType_Int8, FieldNames(<<NameA>>, 2))
                \o Field(e))

Fields(e) == {Field(e), FieldSparse(e), FieldCell(e), FieldStruct(e)}

\* the sequences of at most n names
RECURSIVE NameLists(_)
NameLists(n) ==
    IF n = 0 THEN {<<>>}
    ELSE {<<>>} \cup {<<x>> \o y : x \in {NameA, NameB}, y \in NameLists(n - 1)}

\* structures of at most MaxFields fields, names that repeat included
StructElems(e) ==
    UNION { { Struct(e, names, [j \in 1..Len(names) |-> f]) : f \in Fields(e) } :
              names \in NameLists(MaxFields) \ {<<>>} }
    \cup
    { StructOf(e, SmallSub(e, DataType_Int32, EncI32(e, 2)),
               Sub(e, DataType_Int8, <<0>>), <<>>) }

\* structures a writer does not lay out: a field with a name in the stream,
\* a compressed field, a missing field, a name length of 0, of 2^31 + 2 as a
\* usize, or held as a double, a name without a NUL
OddStructs(e) ==
    { Struct(e, <<NameA>>, <<ElemA(e)>>),
      Struct(e, <<NameA>>, <<ElemZ(e)>>),
      Struct(e, <<NameA, NameB>>, <<Field(e)>>),
      StructOf(e, SmallSub(e, DataType_Int32, EncI32(e, 0)),
               Sub(e, DataType_Int8, FieldNames(<<NameA>>, 2)), <<Field(e)>>),
      StructOf(e, SmallSub(e, DataType_Int32, EncI32(e, -2147483647 + 1)),
               Sub(e, DataType_Int8, FieldNames(<<NameA>>, 2)), <<Field(e)>>),
      StructOf(e, NumSub(e, DataType_Double, 1),
               Sub(e, DataType_Int8, FieldNames(<<NameA>>, 2)), <<Field(e)>>),
      StructOf(e, NumSub(e, DataType_Int32, 2),
               Sub(e, DataType_Int8, FieldNames(<<NameA>>, 2)), <<Field(e)>>),
      StructOf(e, SmallSub(e, DataType_Int32, EncI32(e, 2)),
               Sub(e, DataType_Int8, <<97, 98>>), <<Field(e)>>) }

StructFiles ==
    UNION { { FileHeader(e) \o x \o ElemU(e) :
                  x \in StructElems(e) \cup OddStructs(e) } : e \in Endians }

\* character arrays of every character type: n cells declared, m laid out
EncU16(e, u) == Digits(e, <<u \div T8, u % T8>>)

CharPayload(e, t, m) ==
    CASE t = DataType_Utf8 -> [j \in 1..m |-> 96 + j]
      [] t \in {DataType_UInt16, DataType_Utf16} ->
            Concat([j \in 1..m |-> EncU16(e, 96 + j)])
      [] t = DataType_Utf32 -> Concat([j \in 1..m |-> EncNat(e, 96 + j)])
      [] OTHER -> Zeros(m)

CharTypes ==
    {DataType_UInt16, DataType_Utf8, DataType_Utf16, DataType_Utf32,
     DataType_UInt8}

CharOf(e, n, t, payload) ==
    Matrix(e, MatrixHead(e, ArrayType_Char, FALSE, 0, <<1, n>>, NameX)
                \o Sub(e, t, payload))

\* a character array of the extents dims
CharWide(e, dims, t, payload) ==
    Matrix(e, MatrixHead(e, ArrayType_Char, FALSE, 0, dims, NameX)
                \o Sub(e, t, payload))

\* a complex character array of n cells
CharComplex(e, n, t, re, im) ==
    Matrix(e, MatrixHead(e, ArrayType_Char, TRUE, 0, <<1, n>>, NameX)
                \o Sub(e, t, re) \o Sub(e, t, im))

CharFiles ==
    { FileHeader(e) \o CharOf(e, n, t, CharPayload(e, t, m)) \o ElemU(e) :
          e \in Endians, n \in 0..MaxCount, t \in CharTypes, m \in 0..MaxCount }
    \cup
    { FileHeader(e) \o CharOf(e, 1, t, CharPayload(e, t, 1) \o <<0>>) :
          e \in Endians, t \in CharTypes }
    \cup
    { FileHeader(e)
        \o CharComplex(e, 2, t, CharPayload(e, t, 2), CharPayload(e, t, m)) :
          e \in Endians, t \in {DataType_Utf8, DataType_Utf16, DataType_Utf32},
          m \in 1..2 }
    \cup
    { FileHeader(e) \o CharWide(e, dims, t, CharPayload(e, t, m)) :
          e \in Endians, dims \in {<<65536, 65536>>, <<-1, -1>>, <<-1, 1>>},
          t \in CharTypes, m \in 0..1 }

\* headers that parse_header does not accept
HeaderFiles ==
    { Prefix(FileHeader("Little"), 100),
      <<77, 0, 84, 76>> \o Zeros(120) \o <<0, 1, 73, 77>>,
      <<77, 65, 84, 76>> \o Zeros(120) \o <<0, 1, 73, 73>>,
      <<77, 65, 84, 76>> \o Zeros(120) \o <<0, 2, 73, 77>>,
      <<77, 65, 84, 76>> \o Zeros(120) \o <<0, 1, 77, 73>> }

\* files that hold the same elements in both byte orders: an element is
\* described by [kind, a, b, c] and laid out for the endianness e, every
\* value of several bytes with the digits j in the order of e
Values(e, t, n) ==
    Concat([j \in 1..n |-> Digits(e, [k \in 1..SizeOf(t) |-> (16 * k) + j])])

ValuesSub(e, t, n) == Sub(e, t, Values(e, t, n))

DenseTwin(e, class, rt, complex, name) ==
    Matrix(e, MatrixHead(e, class, complex, 0, <<1, 2>>, name)
                \o ValuesSub(e, rt, 2)
                \o (IF complex THEN ValuesSub(e, rt, 2) ELSE <<>>))

\* index subelements in the long and in the small format, and of a length
\* that is not a multiple of 4
IndexTwin(e, b) ==
    CASE b = 1 -> IndexSub(e, 2)
      [] b = 2 -> SmallSub(e, DataType_Int32, EncI32(e, 258))
      [] b = 3 -> SmallTag(e, DataType_Int32, 2) \o <<0, 0>>
      [] OTHER -> LongTag(e, DataType_Int32, U32FromNat(6))
                      \o EncI32(e, 258) \o <<0, 0>>

SparseTwin(e, complex, nzmax, b, name) ==
    Matrix(e, MatrixHead(e, ArrayType_Sparse, complex, nzmax, <<2, 2>>, name)
                \o IndexTwin(e, b) \o IndexSub(e, 2)
                \o ValuesSub(e, DataType_Double, nzmax)
                \o (IF complex THEN ValuesSub(e, DataType_Double, nzmax)
                    ELSE <<>>))

FieldTwin(e, b) ==
    CASE b = 1 -> DenseTwin(e, ArrayType_Int32, DataType_Int16, FALSE, <<>>)
      [] b = 2 -> SparseTwin(e, FALSE, 1, 1, <<>>)
      [] b = 3 -> FieldCell(e)
      [] OTHER -> FieldStruct(e)

NamesTwin(a) ==
    CASE a = 1 -> <<NameA>> [] a = 2 -> <<NameA, NameB>> [] OTHER -> <<NameA, NameA>>

ElementTwin(e, p) ==
    CASE p.kind = "dense" -> DenseTwin(e, p.a, p.b, p.c, NameX)
      [] p.kind = "zlib" -> Compressed(e, DenseTwin(e, p.a, p.b, p.c, NameX))
      [] p.kind = "sparse" -> SparseTwin(e, p.c, p.a, p.b, NameX)
      [] p.kind = "char" ->
            IF p.c
            THEN CharComplex(e, p.a, p.b, CharPayload(e, p.b, p.a),
                             CharPayload(e, p.b, p.a))
            ELSE CharOf(e, p.a, p.b, CharPayload(e, p.b, p.a))
      [] p.kind = "struct" ->
            Struct(e, NamesTwin(p.a),
                   [j \in 1..Len(NamesTwin(p.a)) |-> FieldTwin(e, p.b)])
      [] p.kind = "other" -> Element(e, p.a, Values(e, DataType_Int16, p.b))
      [] OTHER -> SmallSub(e, p.a, Values(e, DataType_Int16, p.b))

TwinElements ==
    [kind : {"dense"}, a : NumericClasses, b : NumericTypes, c : {FALSE}]
    \cup [kind : {"dense", "zlib"}, a : {ArrayType_Double, ArrayType_Int64},
          b : {DataType_Int32, DataType_Double}, c : BOOLEAN]
    \cup [kind : {"sparse"}, a : 0..MaxCount, b : 1..4, c : BOOLEAN]
    \cup [kind : {"char"}, a : 1..MaxCount,
          b : {DataType_UInt16, DataType_Utf8, DataType_Utf16, DataType_Utf32},
          c : BOOLEAN]
    \cup [kind : {"struct"}, a : 1..3, b : 1..4, c : {FALSE}]
    \cup [kind : {"other", "small"},
          a : {DataType_Int8, DataType_UInt16, DataType_Double, DataType_Utf8},
          b : 0..2, c : {FALSE}]

\* one element, or two of a few
TwinStreams ==
    { <<p>> : p \in TwinElements }
    \cup
    { <<p, q>> :
          p \in [kind : {"zlib", "other", "small"}, a : {ArrayType_Double},
                 b : {DataType_Int32}, c : {FALSE}],
          q \in [kind : {"dense", "zlib", "struct"}, a : {ArrayType_Double},
                 b : {DataType_Int32}, c : {FALSE}] }

FileTwin(e, ps) ==
    FileHeader(e) \o Concat([j \in 1..Len(ps) |-> ElementTwin(e, ps[j])])

\* a little-endian file with the file that holds the same in big endian
TwinPairs == { <<FileTwin("Little", ps), FileTwin("Big", ps)>> : ps \in TwinStreams }

TwinLittle == { pr[1] : pr \in TwinPairs }

TwinFiles == TwinLittle \cup { pr[2] : pr \in TwinPairs }

MaxDepth == 3

\* inner compressed n times over
RECURSIVE CompressedTimes(_, _, _)
CompressedTimes(e, inner, n) ==
    IF n = 0 THEN inner ELSE Compressed(e, CompressedTimes(e, inner, n - 1))

\* a field that is a structure whose field is a structure
FieldDeep(e) ==
    Matrix(e, MatrixHead(e, ArrayType_Struct, FALSE, 0, <<1, 1>>, <<>>)
                \o SmallSub(e, DataType_Int32, EncI32(e, 2))
                \o Sub(e, DataType_Int8, FieldNames(<<NameA>>, 2))
                \o FieldStruct(e))

\* a matrix, and a structure in a structure in a structure, compressed up to
\* MaxDepth times over, whole and cut short inside the innermost buffer
DeepFiles ==
    UNION { { FileHeader(e) \o CompressedTimes(e, x, n) \o ElemU(e) :
                  n \in 0..MaxDepth,
                  x \in {ElemA(e), Struct(e, <<NameA>>, <<FieldDeep(e)>>),
                         Prefix(ElemA(e), 12), Prefix(ElemA(e), 3)} } :
              e \in Endians }

Files ==
    CompatFiles \cup DimFiles \cup StreamFiles \cup TopFiles \cup NameFiles
        \cup SparseFiles \cup StructFiles \cup CharFiles \cup HeaderFiles
        \cup TwinFiles \cup DeepFiles

(***************************************************************************)
(* parse_all called on a file, in a build with or without overflow checks  *)
(***************************************************************************)
Init ==
    /\ input \in Files
    /\ profile \in {"debug", "release"}
    /\ endianness = "Little"
    /\ pc = "header"
    /\ rest = <<>>
    /\ header = Header(<<>>, TRUE)
    /\ data_elements = <<>>
    /\ outcome = Err("None")
    /\ spans = <<>>
    /\ structure = NoStructure
    /\ returned = None

Spec == Init /\ [][Next]_vars

(***************************************************************************)
(* The tag decoder called on eight bytes or fewer                          *)
(***************************************************************************)
\* first words of both formats, with recognized and unrecognized type codes
FirstWords ==
    { U32(hi, lo) : hi \in {0, 1, 4, 5, T16 - 1},
                    lo \in {0, DataType_Int8, DataType_Single, 8,
                            DataType_Matrix, DataType_Utf32, 19, T16 - 1} }

\* sizes around a multiple of 8 and around 2^31 and 2^32
SecondWords ==
    { U32(0, lo) : lo \in {0, 1, 7, 8, 9} }
    \cup { U32(T16 \div 2, 0), U32((T16 \div 2) - 1, T16 - 1) }
    \cup { U32(T16 - 1, lo) : lo \in (T16 - 9)..(T16 - 1) }

TagInputs ==
    { EncU32(e, w) \o EncU32(e, s) :
          e \in Endians, w \in FirstWords, s \in SecondWords }
    \cup { EncU32(e, w) : e \in Endians, w \in FirstWords }
    \cup { <<0, 0, 0>> }

InitTag ==
    /\ input \in TagInputs
    /\ profile \in {"debug", "release"}
    /\ endianness \in Endians
    /\ pc = "tag"
    /\ rest = input
    /\ header = Header(<<>>, endianness = "Little")
    /\ data_elements = <<>>
    /\ outcome = Err("None")
    /\ spans = <<>>
    /\ structure = NoStructure
    /\ returned = None

\* parse_data_element_tag(endianness)(i)
DecodeTag ==
    /\ pc = "tag"
    /\ outcome' = parse_data_element_tag(endianness, rest)
    /\ rest' = outcome'.rest
    /\ pc' = "done"
    /\ UNCHANGED <<input, profile, endianness, header, data_elements, spans,
                   structure, returned>>

NextTag == DecodeTag

SpecTag == InitTag /\ [][NextTag]_vars

(***************************************************************************)
(* Structure and its accessors, in the hands of a consumer                 *)
(***************************************************************************)
\* Structure::new
Structure_new(hdr) == Structure(hdr, <<>>, <<>>)

\* the position of the last field called name
index_last(s, name) ==
    IF \E k \in 1..Len(s.field_names) : s.field_names[k] = name
    THEN Some(CHOOSE k \in 1..Len(s.field_names) :
                  /\ s.field_names[k] = name
                  /\ \A h \in (k + 1)..Len(s.field_names) :
                        s.field_names[h] # name)
    ELSE None

\* field_names.iter().position(|v| v == name)
index(s, name) ==
    IF \E k \in 1..Len(s.field_names) : s.field_names[k] = name
    THEN Some(CHOOSE k \in 1..Len(s.field_names) :
                  /\ s.field_names[k] = name
                  /\ \A h \in 1..(k - 1) : s.field_names[h] # name)
    ELSE None

len(s) == Len(s.field_names)

\* a removal that drops the last entry, whatever k is
RemoveLast(seq, k) == SubSeq(seq, 1, Len(seq) - 1)

RemoveAt(seq, k) == SubSeq(seq, 1, k - 1) \o SubSeq(seq, k + 1, Len(seq))

\* what an accessor leaves and returns; panic: an index past the end of values
Returns(s, ret) == [structure |-> s, returned |-> ret, panic |-> FALSE]

Panics(s) == [structure |-> s, returned |-> None, panic |-> TRUE]

get_at(s, idx) ==
    IF ~IsSome(idx) THEN Returns(s, None)
    ELSE IF Unwrap(idx) > Len(s.values) THEN Panics(s)
    ELSE Returns(s, Some(s.values[Unwrap(idx)]))

get(s, name) == get_at(s, index(s, name))

\* get_mut, and the value the caller leaves in the slot it was handed
get_mut_at(s, idx, v) ==
    IF ~IsSome(idx) THEN Returns(s, None)
    ELSE IF Unwrap(idx) > Len(s.values) THEN Panics(s)
    ELSE Returns([s EXCEPT !.values[Unwrap(idx)] = v],
                 Some(s.values[Unwrap(idx)]))

get_mut(s, name, v) == get_mut_at(s, index(s, name), v)

\* an insert that appends whether or not the name is there
insert_push_at(s, idx, name, v) ==
    Returns([s EXCEPT !.field_names = Append(@, name),
                      !.values = Append(@, v)], None)

insert_at(s, idx, name, v) ==
    IF IsSome(idx)
    THEN IF Unwrap(idx) > Len(s.values) THEN Panics(s)
         ELSE Returns([s EXCEPT !.values[Unwrap(idx)] = v],
                      Some(s.values[Unwrap(idx)]))
    ELSE Returns([s EXCEPT !.field_names = Append(@, name),
                           !.values = Append(@, v)], None)

insert(s, name, v) == insert_at(s, index(s, name), name, v)

\* a remove that takes the name and leaves the value
remove_name_at(s, idx) ==
    IF ~IsSome(idx) THEN Returns(s, None)
    ELSE Returns([s EXCEPT !.field_names = RemoveAt(@, Unwrap(idx))],
                 Some(s.values[Unwrap(idx)]))

remove_at(s, idx) ==
    IF ~IsSome(idx) THEN Returns(s, None)
    ELSE IF Unwrap(idx) > Len(s.values)
    THEN Panics([s EXCEPT !.field_names = RemoveAt(@, Unwrap(idx))])
    ELSE Returns([s EXCEPT !.field_names = RemoveAt(@, Unwrap(idx)),
                           !.values = RemoveAt(@, Unwrap(idx))],
                 Some(s.values[Unwrap(idx)]))

remove(s, name) == remove_at(s, index(s, name))

NewHeader ==
    ArrayHeader(ArrayFlags(U32(0, ArrayType_Struct), ArrayType_Struct,
                           U32FromNat(0)), <<1, 1>>, NameX)

FieldKeys == {NameA, NameB, NameX}

FieldValues == {Unsupported}

\* a consumer with the bytes of a structure element, or with none
InitStructure ==
    /\ input \in StructElems("Little") \cup {<<>>}
    /\ profile \in {"debug", "release"}
    /\ endianness = "Little"
    /\ pc = "parse"
    /\ rest = input
    /\ header = Header(<<>>, TRUE)
    /\ data_elements = <<>>
    /\ outcome = Err("None")
    /\ spans = <<>>
    /\ structure = NoStructure
    /\ returned = None

\* the consumer takes the Structure that the parser returns for the bytes,
\* or makes an empty one with Structure::new
Obtain ==
    /\ pc = "parse"
    /\ IF input = <<>>
       THEN /\ structure' = Structure_new(NewHeader)
            /\ UNCHANGED <<rest, outcome>>
       ELSE /\ outcome' = parse_next_data_element(endianness, None, input)
            /\ IsOk(outcome')
            /\ outcome'.val.kind = "StructureMatrix"
            /\ structure' = outcome'.val
            /\ rest' = outcome'.rest
    /\ pc' = "structure"
    /\ UNCHANGED <<input, profile, endianness, header, data_elements, spans,
                   returned>>

\* the accessor returned r, or panicked
Accessed(op, r) ==
    /\ structure' = r.structure
    /\ returned' = r.returned
    /\ pc' = IF r.panic THEN "panic" ELSE op
    /\ UNCHANGED <<input, profile, endianness, rest, header, data_elements,
                   outcome, spans>>

Holding == pc \in {"structure", "insert", "remove", "get", "get_mut"}

Insert ==
    /\ Holding
    /\ \E name \in FieldKeys, v \in FieldValues :
          /\ IsSome(index(structure, name)) \/ len(structure) < MaxFields
          /\ Accessed("insert", insert(structure, name, v))

Remove ==
    /\ Holding
    /\ \E name \in FieldKeys : Accessed("remove", remove(structure, name))

Get ==
    /\ Holding
    /\ \E name \in FieldKeys : Accessed("get", get(structure, name))

GetMut ==
    /\ Holding
    /\ \E name \in FieldKeys, v \in FieldValues :
          Accessed("get_mut", get_mut(structure, name, v))

NextStructure == Obtain \/ Insert \/ Remove \/ Get \/ GetMut

SpecStructure == InitStructure /\ [][NextStructure]_vars

(***************************************************************************)
(* parse_header called on a header, whole, damaged or cut short            *)
(***************************************************************************)
\* the first four bytes, none or one of them NUL
Magics ==
    { [k \in 1..4 |-> IF k = z THEN 0 ELSE 76 + k] : z \in 0..4 }

\* the version word and the endian indicator, as bytes 124..128
Versions == { <<0, 1>>, <<1, 0>>, <<0, 2>>, <<1, 1>>, <<0, 0>> }

Indicators == { <<73, 77>>, <<77, 73>>, <<73, 73>>, <<77, 77>>, <<0, 0>> }

HeaderOf(magic, fill, version, indicator) ==
    magic \o [k \in 1..112 |-> fill] \o Zeros(8) \o version \o indicator

HeaderInputs ==
    UNION { { HeaderOf(m, f, v, x),
              HeaderOf(m, f, v, x) \o <<14, 0>>,
              Prefix(HeaderOf(m, f, v, x), 127) } :
                m \in Magics, f \in {32, 255}, v \in Versions,
                x \in Indicators }
    \cup { Prefix(FileHeader(e), n) :
               e \in Endians, n \in {0, 3, 4, 116, 123, 124, 125, 126} }

InitHeader ==
    /\ input \in HeaderInputs
    /\ profile \in {"debug", "release"}
    /\ endianness = "Little"
    /\ pc = "parse_header"
    /\ rest = input
    /\ header = Header(<<>>, TRUE)
    /\ data_elements = <<>>
    /\ outcome = Err("None")
    /\ spans = <<>>
    /\ structure = NoStructure
    /\ returned = None

\* parse_header(i)
DecodeHeader ==
    /\ pc = "parse_header"
    /\ outcome' = parse_header(rest)
    /\ rest' = outcome'.rest
    /\ pc' = "done"
    /\ UNCHANGED <<input, profile, endianness, header, data_elements, spans,
                   structure, returned>>

NextHeader == DecodeHeader

SpecHeader == InitHeader /\ [][NextHeader]_vars

(***************************************************************************)
(* parse_numeric_subelement called on a subelement and what follows it     *)
(***************************************************************************)
\* the payload of n bytes, its padding, and the tag of a next subelement
Followed(e, n, pad) ==
    [j \in 1..n |-> j] \o Zeros(pad) \o LongTag(e, DataType_UInt8, U32FromNat(0))

\* subelements of every numeric type and of two others, in the long format
\* with 0..9 bytes and in the small format with 1..4 bytes
NumericInputs ==
    { LongTag(e, t, U32FromNat(n)) \o Followed(e, n, (8 - (n % 8)) % 8) :
          e \in Endians, t \in NumericTypes \cup {DataType_Utf8, DataType_Matrix},
          n \in 0..9 }
    \cup
    { SmallTag(e, t, n) \o Followed(e, n, 4 - n) :
          e \in Endians, t \in NumericTypes \cup {DataType_Utf8}, n \in 1..4 }
    \cup
    { Prefix(LongTag(e, DataType_Int32, U32FromNat(8)) \o Followed(e, 8, 0), n) :
          e \in Endians, n \in {0, 4, 8, 12} }

InitNumeric ==
    /\ input \in NumericInputs
    /\ profile \in {"debug", "release"}
    /\ endianness \in Endians
    /\ pc = "numeric"
    /\ rest = input
    /\ header = Header(<<>>, endianness = "Little")
    /\ data_elements = <<>>
    /\ outcome = Err("None")
    /\ spans = <<>>
    /\ structure = NoStructure
    /\ returned = None

\* parse_numeric_subelement(endianness)(i)
DecodeNumeric ==
    /\ pc = "numeric"
    /\ outcome' = parse_numeric_subelement(endianness, rest)
    /\ rest' = outcome'.rest
    /\ pc' = "done"
    /\ UNCHANGED <<input, profile, endianness, header, data_elements, spans,
                   structure, returned>>

NextNumeric == DecodeNumeric

SpecNumeric == InitNumeric /\ [][NextNumeric]_vars

(***************************************************************************)
(* A consumer that builds a Structure with Structure::new and then makes   *)
(* a sequence of insert and remove calls on it                             *)
(***************************************************************************)
MaxCalls == 4

InsertedValues == {Unsupported, Structure_new(NewHeader)}

\* the calls a consumer can make: insert(name, v) and remove(name)
Calls ==
    { <<"insert", name, v>> : name \in FieldKeys, v \in InsertedValues }
    \cup { <<"remove", name>> : name \in FieldKeys }

CallSequences == UNION { [1..n -> Calls] : n \in 0..MaxCalls }

\* field_names().zip(values())
iter(s) ==
    [k \in 1..(IF Len(s.field_names) < Len(s.values)
               THEN Len(s.field_names) ELSE Len(s.values)) |->
        <<s.field_names[k], s.values[k]>>]

\* input: the calls the consumer is going to make; rest: those still to make
InitCalls ==
    /\ input \in CallSequences
    /\ profile \in {"debug", "release"}
    /\ endianness = "Little"
    /\ pc = "structure"
    /\ rest = input
    /\ header = Header(<<>>, TRUE)
    /\ data_elements = <<>>
    /\ outcome = Err("None")
    /\ spans = <<>>
    /\ structure = Structure_new(NewHeader)
    /\ returned = None

\* the next call was made and returned r, or panicked
Called(op, r) ==
    /\ structure' = r.structure
    /\ returned' = r.returned
    /\ pc' = IF r.panic THEN "panic" ELSE op
    /\ rest' = Tail(rest)
    /\ UNCHANGED <<input, profile, endianness, header, data_elements,
                   outcome, spans>>

CallInsert ==
    /\ Holding
    /\ rest # <<>>
    /\ Head(rest)[1] = "insert"
    /\ Called("insert", insert(structure, Head(rest)[2], Head(rest)[3]))

CallRemove ==
    /\ Holding
    /\ rest # <<>>
    /\ Head(rest)[1] = "remove"
    /\ Called("remove", remove(structure, Head(rest)[2]))

NextCalls == CallInsert \/ CallRemove

SpecCalls == InitCalls /\ [][NextCalls]_vars

(***************************************************************************)
(* parse_all as a call that runs on.  A step of Next is enabled exactly    *)
(* when pc # "done", so this is WF_vars(Next) written without ENABLED.     *)
(***************************************************************************)
SpecFair == Spec /\ ([]<>(pc = "done") \/ []<><<Next>>_vars)

(***************************************************************************)
(* Properties                                                              *)
(***************************************************************************)
\* parse_all returned Ok
Returned == pc = "done" /\ IsOk(outcome)

\* the elements of a sequence of elements, the fields of structures included
RECURSIVE Nested(_)
Nested(elems) ==
    IF elems = <<>> THEN {}
    ELSE {Head(elems)}
            \cup (IF Head(elems).kind = "StructureMatrix"
                  THEN Nested(Head(elems).values) ELSE {})
            \cup Nested(Tail(elems))

\* the first element of the file has been accepted or has failed
FirstSettled == pc = "done" \/ Len(data_elements) >= 1

FirstAccepted == Len(data_elements) >= 1

\* the subelements of a first element that is a matrix with a long tag
FirstHeader == parse_array_header(endianness, None, Drop(input, 128 + 8))

FirstReal == parse_numeric_subelement(endianness, FirstHeader.rest)

FirstImag == parse_numeric_subelement(endianness, FirstReal.rest)

\* C1: parse_all does not return Ok with the elements decoded so far when
\* the element after them failed to decode: the input that an Ok result
\* hands back does not start with the tag of an element.
C1_NoSilentDrop ==
    Returned => ~IsOk(parse_data_element_tag(endianness, outcome.rest))

\* the table of the permitted on-disk types of each class
Permitted(class) ==
    CASE class = ArrayType_Int8 -> {DataType_Int8}
      [] class = ArrayType_UInt8 -> {DataType_UInt8}
      [] class = ArrayType_Int16 -> {DataType_UInt8, DataType_Int16}
      [] class = ArrayType_UInt16 -> {DataType_UInt8, DataType_UInt16}
      [] class = ArrayType_Int32 ->
            {DataType_UInt8, DataType_Int16, DataType_UInt16, DataType_Int32}
      [] class = ArrayType_UInt32 ->
            {DataType_UInt8, DataType_Int16, DataType_UInt16, DataType_UInt32}
      [] class = ArrayType_Int64 ->
            {DataType_UInt8, DataType_Int16, DataType_UInt16, DataType_Int32,
             DataType_Int64}
      [] class = ArrayType_UInt64 ->
            {DataType_UInt8, DataType_Int16, DataType_UInt16, DataType_Int32,
             DataType_UInt64}
      [] class = ArrayType_Single ->
            {DataType_UInt8, DataType_Int16, DataType_UInt16, DataType_Int32,
             DataType_Single}
      [] class = ArrayType_Double ->
            {DataType_UInt8, DataType_Int16, DataType_UInt16, DataType_Int32,
             DataType_Double}

\* C2: a dense numeric array whose parts have the right element count is
\* accepted if and only if the on-disk type of its real part, and of its
\* imaginary part when complex, is in the permitted set of its class.
C2_CompatibilityTable ==
    (input \in CompatFiles /\ FirstSettled) =>
        (FirstAccepted <=>
            /\ FirstReal.val.data_type \in Permitted(FirstHeader.val.flags.class)
            /\ FirstHeader.val.flags.complex =>
                  FirstImag.val.data_type
                      \in Permitted(FirstHeader.val.flags.class))

\* the product of integers, cut to -(Cut + 1) .. Cut + 1
Cut == T16 \div 2

Clip(a) == IF a > Cut THEN Cut + 1 ELSE IF a < -Cut THEN -(Cut + 1) ELSE a

RECURSIVE ClippedProduct(_, _)
ClippedProduct(dims, k) ==
    IF k > Len(dims) THEN 1
    ELSE Clip(Clip(dims[k]) * ClippedProduct(dims, k + 1))

\* C3: the real part of every Numeric element returned holds as many
\* values as the product of the extents, and so does its imaginary part.
C3_PartLengths ==
    \A d \in Nested(data_elements) :
        d.kind = "NumericMatrix" =>
            /\ Len(d.real_part.vec) = ClippedProduct(d.header.dimensions, 1)
            /\ IsSome(d.imag_part) =>
                  Len(Unwrap(d.imag_part).vec)
                      = ClippedProduct(d.header.dimensions, 1)

\* the name subelement of a first element laid out as the files of
\* NameFiles are: flags (16 bytes), then two extents (16 bytes)
InStreamName ==
    parse_array_name_subelement(endianness, Drop(input, 128 + 8 + 16 + 16))

\* C4: a top-level matrix, which has no supplied name, is accepted whatever
\* its in-stream name: with the in-stream name when that is not empty, with
\* an empty name otherwise. A field of a structure bears the supplied name.
C4_NameReconciliation ==
    /\ (input \in NameFiles /\ FirstSettled /\ IsOk(InStreamName)) =>
          /\ FirstAccepted
          /\ data_elements[1].header.name =
                IF IsSome(InStreamName.val) THEN Unwrap(InStreamName.val)
                ELSE <<>>
    /\ \A s \in Nested(data_elements) :
          s.kind = "StructureMatrix" =>
              \A k \in 1..Len(s.values) :
                  s.values[k].kind # "Unsupported" =>
                      s.values[k].header.name = s.field_names[k]

\* the first word of the first element, read in the file's endianness
TopWord == DigitsU32(Digits(endianness, SubSeq(input, 129, 132)))

\* the first element bears a tag whose type is neither Matrix nor
\* Compressed, and whose length, in the small format, is at most 4
TopIsOther ==
    /\ input \in TopFiles
    /\ TopWord.lo \notin {DataType_Matrix, DataType_Compressed}
    /\ TopWord.hi <= 4

\* C5: a top-level element whose type is neither Matrix nor Compressed, a
\* type code that is no DataType included, yields an Unsupported element,
\* and the element after it is decoded.
C5_UnsupportedContinues ==
    (TopIsOther /\ pc = "done") =>
        /\ IsOk(outcome)
        /\ Len(data_elements) = 2
        /\ data_elements[1] = Unsupported
        /\ data_elements[2].kind = "NumericMatrix"

\* the padding that follows the payload of a decoded element
SpanPadding(sp) ==
    IF sp.tag.data_type = DataType_Compressed THEN 0
    ELSE U32Nat(sp.tag.padding_byte_size)

SpanEnd(sp) ==
    sp.start + sp.taglen + U32Nat(sp.tag.data_byte_size) + SpanPadding(sp)

\* what is left is a part of the padding of the last element
FinalPadding ==
    /\ spans # <<>>
    /\ spans[Len(spans)].end + Len(outcome.rest) = Len(input)
    /\ Len(input) < SpanEnd(spans[Len(spans)])

\* C6: when parse_all succeeds the elements tile the input after the
\* header: the first starts at byte 128, each next one where the one before
\* it (tag, payload, padding) ended, and nothing but final padding is left.
C6_Tiling ==
    Returned =>
        /\ \A k \in 1..Len(spans) :
              /\ spans[k].start = IF k = 1 THEN 128 ELSE spans[k - 1].end
              /\ spans[k].end = SpanEnd(spans[k])
                    \/ (k = Len(spans) /\ Len(input) < SpanEnd(spans[k])
                            /\ spans[k].end
                                   = SpanEnd(spans[k]) - SpanPadding(spans[k]))
        /\ outcome.rest = <<>> \/ FinalPadding

\* the words of the tag, read in the endianness of the decoder
TagWord == DigitsU32(Digits(endianness, SubSeq(input, 1, 4)))

SizeWord == DigitsU32(Digits(endianness, SubSeq(input, 5, 8)))

\* the least p in 0..7 with size + p a multiple of 8
LeastPadding(size) == (8 - U32ModNat(size, 8)) % 8

\* C7: for a first word whose high half is zero the decoder reads a second
\* word and returns (type, second word, least padding to a multiple of 8),
\* whatever the second word; otherwise it returns (low half, high half,
\* 4 - high half) and consumes four bytes. It fails exactly when the type
\* is no DataType code or, in the small format, the length is above 4.
C7_TagDecoder ==
    (pc = "done" /\ Len(input) >= 4
        /\ Len(input) >= (IF TagWord.hi = 0 THEN 8 ELSE 4)) =>
        IF TagWord.lo \notin DataType \/ TagWord.hi > 4
        THEN outcome.k = "Failure"
        ELSE IF TagWord.hi = 0
        THEN outcome = Ok(Drop(input, 8),
                          DataElementTag(TagWord.lo, SizeWord,
                              U32FromNat(LeastPadding(SizeWord))))
        ELSE outcome = Ok(Drop(input, 4),
                          DataElementTag(TagWord.lo, U32(0, TagWord.hi),
                              U32FromNat(4 - TagWord.hi)))

\* C8: the real part of every Sparse element returned holds nzmax values;
\* it has an imaginary part exactly when the complex flag is set, and that
\* part holds nzmax values too.
C8_SparseLengths ==
    \A d \in Nested(data_elements) :
        d.kind = "SparseMatrix" =>
            /\ U32EqNat(d.header.flags.nzmax, Len(d.real_part.vec))
            /\ IsSome(d.imag_part) <=> d.header.flags.complex
            /\ IsSome(d.imag_part) =>
                  U32EqNat(d.header.flags.nzmax, Len(Unwrap(d.imag_part).vec))

\* a complex sparse array of two values in each part has been returned
C8_Witness ==
    \E k \in 1..Len(data_elements) :
        /\ data_elements[k].kind = "SparseMatrix"
        /\ data_elements[k].header.flags.complex
        /\ Len(data_elements[k].real_part.vec) = 2
        /\ Len(Unwrap(data_elements[k].imag_part).vec) = 2

\* the row index and the column index subelement of a first element that
\* is a sparse array
RowTag == parse_data_element_tag(endianness, FirstHeader.rest)

RowIndexSub == parse_row_index_array_subelement(endianness, FirstHeader.rest)

ColumnTag == parse_data_element_tag(endianness, RowIndexSub.rest)

\* (Int32, length > 0, length a multiple of 4)
IndexTagOk(tag) ==
    /\ tag.data_type = DataType_Int32
    /\ U32GtNat(tag.data_byte_size, 0)
    /\ U32ModNat(tag.data_byte_size, 4) = 0

\* the length/4 values of four bytes that follow the tag t, in file order
OnDisk(t) ==
    [j \in 1..U32Nat(U32DivNat(t.val.data_byte_size, 4)) |->
        AsUsize(Digits(endianness, SubSeq(t.rest, 4 * j - 3, 4 * j)))]

\* C9: a sparse array is accepted only when the tags of its row index and
\* of its column index are (Int32, length > 0, length a multiple of 4), and
\* the two indices then hold the values on disk, in file order.
C9_IndexTags ==
    (input \in SparseFiles /\ FirstAccepted) =>
        /\ IndexTagOk(RowTag.val)
        /\ IndexTagOk(ColumnTag.val)
        /\ data_elements[1].row_index = OnDisk(RowTag)
        /\ data_elements[1].column_index = OnDisk(ColumnTag)

\* the structure in the consumer's hands, the structures among its fields,
\* and the one an accessor returned
HeldStructures ==
    {structure}
        \cup {d \in Nested(structure.values) : d.kind = "StructureMatrix"}
        \cup {d \in Nested(returned) : d.kind = "StructureMatrix"}

\* C10: every Structure that the parser returns, and every Structure that
\* insert, remove, get and get_mut leave, has as many names as values.
C10_SameLength ==
    \A s \in HeldStructures : Len(s.field_names) = Len(s.values)

\* a field has been removed from a structure that the parser returned, and
\* one field is left
C10_Witness ==
    /\ pc = "remove"
    /\ IsSome(returned)
    /\ input # <<>>
    /\ structure.field_names = <<NameA>>
    /\ Len(structure.values) = 1

\* the subelements of a first element that is a structure: the field name
\* length, the field names, and the tag of the first field
FirstNameLength ==
    parse_struct_field_name_length(endianness, FirstHeader.rest)

FirstNames ==
    parse_struct_names(endianness, FirstNameLength.val, FirstNameLength.rest)

FirstFieldTag == parse_data_element_tag(endianness, FirstNames.rest)

\* the first element is a structure whose first field has a Compressed tag
CompressedField ==
    /\ input \in StructFiles
    /\ IsOk(FirstHeader)
    /\ FirstHeader.val.flags.class = ArrayType_Struct
    /\ IsOk(FirstNameLength)
    /\ IsOk(FirstNames)
    /\ FirstNames.val # <<>>
    /\ IsOk(FirstFieldTag)
    /\ FirstFieldTag.val.data_type = DataType_Compressed

\* C11: a structure field whose tag is Compressed ends the parse with a
\* failure that parse_all returns to its caller; the parser does not abort
\* and no Structure holding the field is produced.
C11_CompressedField ==
    (pc = "done" /\ CompressedField) =>
        /\ outcome.k = "Failure"
        /\ data_elements = <<>>

\* the numeric subelement that holds the field name length of a first
\* element that is a structure
FirstLengthData == parse_numeric_subelement(endianness, FirstHeader.rest)

IntegerTypes == NumericTypes \ {DataType_Single, DataType_Double}

\* the first element is a structure whose field name length subelement
\* decodes as a numeric subelement
StructureWithLength ==
    /\ input \in StructFiles
    /\ IsOk(FirstHeader)
    /\ FirstHeader.val.flags.class = ArrayType_Struct
    /\ IsOk(FirstLengthData)

\* exactly one integer, of an integer type, that is not 0
OneLength(n) ==
    /\ n.data_type \in IntegerTypes
    /\ Len(n.vec) = 1
    /\ \E j \in 1..Len(n.vec[1]) : n.vec[1][j] # 0

\* C12: the field name length subelement of a structure holds exactly one
\* integer, which becomes max_name_len; with no integer or several, with a
\* Single or Double payload, or with a max_name_len of 0, the structure
\* fails with an error that parse_all returns, and the parser never aborts.
C12_FieldNameLength ==
    (pc = "done" /\ StructureWithLength) =>
        IF OneLength(FirstLengthData.val)
        THEN /\ IsOk(FirstNameLength)
             /\ FirstNameLength.val =
                    usize_of(FirstLengthData.val.data_type,
                             FirstLengthData.val.vec[1])
        ELSE outcome.k = "Failure"

\* the tag of the real part of a first element that is a character array
FirstCharTag == parse_data_element_tag(endianness, FirstHeader.rest)

\* the width of one unit of a character encoding
UnitSize(t) ==
    CASE t \in {DataType_UInt16, DataType_Utf16} -> 2
      [] t = DataType_Utf32 -> 4
      [] OTHER -> 1

\* the first element is a character array whose real part is laid out in
\* full and has a length that is not a whole number of units
BrokenUnits ==
    /\ input \in CharFiles
    /\ IsOk(FirstHeader)
    /\ FirstHeader.val.flags.class = ArrayType_Char
    /\ IsOk(FirstCharTag)
    /\ IsOk(takeU32(FirstCharTag.val.data_byte_size, FirstCharTag.rest))
    /\ U32ModNat(FirstCharTag.val.data_byte_size,
                 UnitSize(FirstCharTag.val.data_type)) # 0

\* C13: a character subelement whose length is not a whole number of the
\* units of its encoding (odd for UInt16 and Utf16, not a multiple of 4 for
\* Utf32) is rejected with a failure that parse_all returns; the parser
\* does not abort.
C13_UnitSize ==
    (pc = "done" /\ BrokenUnits) => outcome.k = "Failure"

\* the bytes that the scalar c takes in the encoding t
EncodedWidth(t, c) ==
    CASE t = DataType_Utf8 ->
            IF c < 128 THEN 1 ELSE IF c < 2048 THEN 2
            ELSE IF c < T16 THEN 3 ELSE 4
      [] t = DataType_Utf16 -> IF c < T16 THEN 2 ELSE 4
      [] OTHER -> 4

RECURSIVE EncodedSize(_, _)
EncodedSize(t, str) ==
    IF str = <<>> THEN 0
    ELSE EncodedWidth(t, Head(str)) + EncodedSize(t, Tail(str))

\* C14: the Unicode string of every Character element returned holds as
\* many scalar values as the product of the extents, in its real part and
\* in its imaginary part, and the string of the real part of a first
\* element accounts for every byte of its payload.
C14_ScalarCount ==
    /\ \A d \in Nested(data_elements) :
          d.kind = "CharacterMatrix" =>
              /\ d.real_part.kind = "Unicode" =>
                    Len(d.real_part.str)
                        = ClippedProduct(d.header.dimensions, 1)
              /\ (IsSome(d.imag_part)
                      /\ Unwrap(d.imag_part).kind = "Unicode") =>
                    Len(Unwrap(d.imag_part).str)
                        = ClippedProduct(d.header.dimensions, 1)
    /\ (input \in CharFiles /\ FirstAccepted
            /\ data_elements[1].kind = "CharacterMatrix"
            /\ data_elements[1].real_part.kind = "Unicode") =>
          U32EqNat(FirstCharTag.val.data_byte_size,
                   EncodedSize(FirstCharTag.val.data_type,
                               data_elements[1].real_part.str))

\* bytes 126..128 of the input, and the version at bytes 124..126 read in
\* the byte order that the indicator selects
Indicator == SubSeq(input, 127, 128)

IndicatedVersion ==
    IF Indicator = <<73, 77>> THEN (input[126] * T8) + input[125]
    ELSE (input[125] * T8) + input[126]

HeaderIsValid ==
    /\ Len(input) >= 128
    /\ \A k \in 1..4 : input[k] # 0
    /\ Indicator \in {<<73, 77>>, <<77, 73>>}
    /\ IndicatedVersion = 256

\* C15: parse_header succeeds exactly when the input has 128 bytes or more,
\* none of its first four bytes is NUL, the indicator is "IM" or "MI" and
\* the version read in the indicated byte order is 0x0100; it then consumes
\* 128 bytes and reports little endian exactly for "IM".
C15_HeaderAccepted ==
    pc = "done" =>
        IF HeaderIsValid
        THEN /\ IsOk(outcome)
             /\ outcome.rest = Drop(input, 128)
             /\ outcome.val.is_little_endian <=> Indicator = <<73, 77>>
        ELSE ~IsOk(outcome)

\* a big-endian header followed by two bytes has been accepted
C15_Witness ==
    /\ pc = "done"
    /\ IsOk(outcome)
    /\ ~outcome.val.is_little_endian
    /\ outcome.rest = <<14, 0>>

\* where the payload of a decoded element ends
PayloadEnd(sp) == sp.start + sp.taglen + U32Nat(sp.tag.data_byte_size)

\* the tag and the payload of the element that many0 tries next
NextTagged == parse_data_element_tag(endianness, rest)

NextPayload == length_value(endianness, None, NextTagged.val, NextTagged.rest)

\* C16: an element that is not Compressed ends after its padding when the
\* input holds the padding whole, and is accepted, ending after its
\* payload, when the input ends before that; a Compressed element ends
\* after its payload, and the tag of the next element is read from there.
C16_Padding ==
    /\ \A k \in 1..Len(spans) :
          /\ spans[k].end =
                IF spans[k].tag.data_type = DataType_Compressed
                THEN PayloadEnd(spans[k])
                ELSE IF Len(input) - PayloadEnd(spans[k])
                            >= U32Nat(spans[k].tag.padding_byte_size)
                THEN PayloadEnd(spans[k])
                         + U32Nat(spans[k].tag.padding_byte_size)
                ELSE PayloadEnd(spans[k])
          /\ k < Len(spans) => spans[k + 1].start = spans[k].end
    /\ (pc = "many0" /\ IsOk(NextTagged) /\ IsOk(NextPayload)) =>
          IsOk(NextElement)

\* a Compressed element whose tag asks for padding has been followed by an
\* element that was accepted although the input ends before its padding
C16_Witness ==
    /\ Len(spans) = 2
    /\ spans[1].tag.data_type = DataType_Compressed
    /\ U32GtNat(spans[1].tag.padding_byte_size, 0)
    /\ spans[2].tag.data_type # DataType_Compressed
    /\ U32GtNat(spans[2].tag.padding_byte_size, 0)
    /\ spans[2].end = Len(input)
    /\ data_elements[2] = Unsupported

\* the names and the values that the accessors are asked about
AskedNames == FieldKeys

AskedValues == {Unsupported, Structure_new(NewHeader)}

\* the position of the first field of s called name, 0 when there is none
FirstCalled(s, name) ==
    IF \E k \in 1..Len(s.field_names) : s.field_names[k] = name
    THEN CHOOSE k \in 1..Len(s.field_names) :
             /\ s.field_names[k] = name
             /\ \A h \in 1..(k - 1) : s.field_names[h] # name
    ELSE 0

\* what insert(name, v) called on s leaves as r
Inserted(s, name, v, r) ==
    /\ ~r.panic
    /\ r.structure.header = s.header
    /\ IF FirstCalled(s, name) # 0
       THEN /\ r.returned = Some(s.values[FirstCalled(s, name)])
            /\ r.structure.field_names = s.field_names
            /\ Len(r.structure.values) = Len(s.values)
            /\ \A j \in 1..Len(s.values) :
                  r.structure.values[j] =
                      IF j = FirstCalled(s, name) THEN v ELSE s.values[j]
       ELSE /\ r.returned = None
            /\ Len(r.structure.field_names) = Len(s.field_names) + 1
            /\ Len(r.structure.values) = Len(s.values) + 1
            /\ r.structure.field_names[Len(s.field_names) + 1] = name
            /\ r.structure.values[Len(s.values) + 1] = v
            /\ \A j \in 1..Len(s.field_names) :
                  /\ r.structure.field_names[j] = s.field_names[j]
                  /\ r.structure.values[j] = s.values[j]

\* C17: insert(name, v) replaces the value of the first field called name,
\* returns the value it had and leaves the names, their order and the
\* length alone; when no field is called name it appends (name, v), returns
\* None and leaves the earlier pairs alone.
C17_Insert ==
    Holding =>
        \A name \in AskedNames, v \in AskedValues :
            Inserted(structure, name, v, insert(structure, name, v))

\* insert has replaced the value of the first of two fields of a parsed
\* structure that have the same name
C17_Witness ==
    /\ pc = "insert"
    /\ input # <<>>
    /\ structure.field_names = <<NameA, NameA>>
    /\ structure.values[1] = Unsupported
    /\ structure.values[2].kind = "NumericMatrix"
    /\ returned = Some(structure.values[2])

\* what remove(name) called on s leaves as r
Removed(s, name, r) ==
    /\ ~r.panic
    /\ r.structure.header = s.header
    /\ IF FirstCalled(s, name) # 0
       THEN /\ r.returned = Some(s.values[FirstCalled(s, name)])
            /\ Len(r.structure.field_names) = Len(s.field_names) - 1
            /\ Len(r.structure.values) = Len(s.values) - 1
            /\ \A j \in 1..(Len(s.field_names) - 1) :
                  LET from == IF j < FirstCalled(s, name) THEN j ELSE j + 1
                  IN  /\ r.structure.field_names[j] = s.field_names[from]
                      /\ r.structure.values[j] = s.values[from]
       ELSE /\ r.returned = None
            /\ r.structure = s

Twin(i) == (CHOOSE pr \in TwinPairs : pr[1] = i)[2]

\* t is a success with the elements of the success o, and with its header
\* but for the byte order
SameTree(o, t) ==
    /\ IsOk(t)
    /\ t.val.data_elements = o.val.data_elements
    /\ t.val.header.text = o.val.header.text
    /\ o.val.header.is_little_endian
    /\ ~t.val.header.is_little_endian
    /\ Len(t.rest) = Len(o.rest)

\* C19: when parse_all accepts a little-endian file, it accepts the file
\* with the other indicator and with the version, the tag words and the
\* values of several bytes reversed, and returns the same elements; only
\* the byte order that the header records differs.
C19_EndianSymmetry ==
    (Returned /\ input \in TwinLittle) =>
        SameTree(outcome, parse_all(Twin(input)))

\* a little-endian file of a structure with two fields that are sparse
\* arrays has been accepted
C19_Witness ==
    /\ Returned
    /\ input \in TwinLittle
    /\ Len(data_elements) = 1
    /\ data_elements[1].kind = "StructureMatrix"
    /\ Len(data_elements[1].values) = 2
    /\ data_elements[1].values[2].kind = "SparseMatrix"
    /\ data_elements[1].values[2].row_index # <<>>

\* the tag at the start of the input
InputTag == parse_data_element_tag(endianness, input)

\* C20: for every tag that parse_numeric_subelement accepts it advances the
\* input by the length of the tag, data_byte_size and padding_byte_size,
\* also when data_byte_size is not a multiple of the size of a primitive.
C20_Advance ==
    (pc = "done" /\ IsOk(outcome)) =>
        Len(input) - Len(outcome.rest)
            = (Len(input) - Len(InputTag.rest))
                  + U32Nat(InputTag.val.data_byte_size)
                  + U32Nat(InputTag.val.padding_byte_size)

\* the calls made so far
Made == SubSeq(input, 1, Len(input) - Len(rest))

\* the position of the last call in Made on name, 0 if there is none
LastCall(name) ==
    IF \E k \in 1..Len(Made) : Made[k][2] = name
    THEN CHOOSE k \in 1..Len(Made) :
             /\ Made[k][2] = name
             /\ \A h \in (k + 1)..Len(Made) : Made[h][2] # name
    ELSE 0

\* the position of the last remove of name, 0 if there is none
LastRemoval(name) ==
    IF \E k \in 1..Len(Made) : Made[k] = <<"remove", name>>
    THEN CHOOSE k \in 1..Len(Made) :
             /\ Made[k] = <<"remove", name>>
             /\ \A h \in (k + 1)..Len(Made) : Made[h] # <<"remove", name>>
    ELSE 0

\* name was inserted and not removed since
Live(name) == LastCall(name) # 0 /\ Made[LastCall(name)][1] = "insert"

LiveNames == { name \in FieldKeys : Live(name) }

\* the position of the first insert of a live name since its last removal
FirstSince(name) == LastRemoval(name) + 1
    + Cardinality({ k \in (LastRemoval(name) + 1)..Len(Made) :
                      \A h \in (LastRemoval(name) + 1)..k : Made[h][2] # name })

\* C21: from Structure::new, after any sequence of insert and remove calls,
\* the field names are pairwise distinct, len() is the number of names
\* inserted and not removed since, get(name) is the value most recently
\* inserted under a live name and None for any other, and iter() yields the
\* live names, with those values, in the order of their first insertion
\* since their last removal.
C21_OrderedMap ==
        /\ pc # "panic"
        /\ \A j, k \in 1..Len(structure.field_names) :
              structure.field_names[j] = structure.field_names[k] => j = k
        /\ len(structure) = Cardinality(LiveNames)
        /\ \A name \in FieldKeys :
              get(structure, name) =
                  Returns(structure,
                          IF Live(name) THEN Some(Made[LastCall(name)][3])
                          ELSE None)
        /\ Len(iter(structure)) = Cardinality(LiveNames)
        /\ \A k \in 1..Len(iter(structure)) :
              /\ iter(structure)[k][1] \in LiveNames
              /\ iter(structure)[k][2] = Made[LastCall(iter(structure)[k][1])][3]
        /\ \A j, k \in 1..Len(iter(structure)) :
              j < k => FirstSince(iter(structure)[j][1])
                           < FirstSince(iter(structure)[k][1])

\* a name was inserted, removed and inserted again with another value after a
\* second name: it is now behind the second name and has the later value
C21_Witness ==
    /\ rest = <<>>
    /\ input = << <<"insert", NameA, Unsupported>>,
                  <<"insert", NameB, Unsupported>>,
                  <<"remove", NameA>>,
                  <<"insert", NameA, Structure_new(NewHeader)>> >>
    /\ pc = "insert"
    /\ iter(structure) = << <<NameB, Unsupported>>,
                            <<NameA, Structure_new(NewHeader)>> >>

\* the first field of the first element, when that is a structure
FirstField == parse_struct_field(endianness, FirstNames.val[1], FirstNames.rest)

HasFirstField ==
    /\ pc # "header"
    /\ IsOk(FirstHeader)
    /\ FirstHeader.val.flags.class = ArrayType_Struct
    /\ IsOk(FirstNameLength)
    /\ IsOk(FirstNames)
    /\ FirstNames.val # <<>>
    /\ IsOk(FirstField)

\* every iteration of many0 that pushed an element consumed 4 bytes or more,
\* and so did a first field that was decoded
Progress ==
    /\ \A k \in 1..Len(spans) : spans[k].end - spans[k].start >= 4
    /\ HasFirstField => Len(FirstNames.rest) - Len(FirstField.rest) >= 4

\* parse_all returned Ok or an error to its caller
ReturnedToCaller == outcome.k \in {"Ok", "Error", "Failure"}

\* a call that runs on comes to its end
Halts == <>(pc = "done")

\* C22: parse_all terminates on every input: every iteration of the element
\* loop and every structure field consumes 4 bytes or more, the recursion
\* through Compressed elements and nested structures ends, and the call
\* ends by returning a result or a failure.
C22_Terminates ==
    /\ Progress
    /\ pc = "done" => ReturnedToCaller

====
